---- MODULE Spec2Model ----
(***************************************************************************)
(* agentgym: the scenario reward-broadcasting and metrics-aggregation      *)
(* engine, the scenario registry and the Trainer episode loop.             *)
(*                                                                         *)
(* Python dictionaries (steps, metadata) are functions whose DOMAIN is the *)
(* set of keys present.  Rewards are held as integer multiples of 1/Unit;  *)
(* measurements (tokens, seconds) are integer valued, so every linear      *)
(* bonus of the code is exact in these units.  Ratios returned by          *)
(* calculate_metrics are pairs [n, d] compared by cross multiplication.    *)
(***************************************************************************)
EXTENDS Integers, Sequences, FiniteSets, TLC

VARIABLES
    scn,            \* scenario class under test in the scenario harness
    trajs,          \* the caller's list of Trajectory objects
    edits,          \* number of key assignments made while building trajs
    phase,          \* "build" | "broadcast" | "metrics"
    rewards,        \* value returned by broadcast_rewards(trajs[Len(trajs)])
    metrics,        \* value returned by calculate_metrics(trajs)
    raised,         \* exception that left the last call, "none" if it returned
    exc,            \* attributes of the ScenarioNotFoundError the last call raised
    call,           \* the last registry or Trainer call and its arguments
    BUILT_IN,       \* ScenarioRegistry.BUILT_IN: name -> scenario class
    built_ins_loaded, \* ScenarioRegistry._built_ins_loaded
    rng,            \* the random module: seed -> values drawn after random.seed(seed)
    pc,             \* position of the Trainer: no_trainer, idle, collect, ...
    self_config,         \* Trainer.config
    self_scenario,       \* Trainer.scenario (the class of the instance)
    self_trajectories,   \* Trainer.trajectories
    self_metrics_history, \* Trainer.metrics_history
    self_episode_count,  \* Trainer._episode_count
    episode,        \* loop variable of train()
    step_rewards,   \* step_rewards of the current episode
    result,         \* TrainingResult returned by the last train()
    train_calls,    \* number of train() calls on the Trainer
    registered,     \* name -> class of the register() calls still in force
    instances,      \* scenario objects created so far: object id -> class
    load_returns,   \* object ids returned by ScenarioRegistry.load, in call order
    events,         \* calls made by the running train(), in order
    first_run,      \* what an earlier, discarded Trainer collected and returned
    config_obj,     \* TrainingConfig produced by the last constructor call
    data,           \* dict returned by TrainingResult.to_dict()
    restored,       \* TrainingResult returned by TrainingResult.from_dict(data)
    training_sessions, \* api/main.py training_sessions: session id -> session dict
    models,         \* api/main.py models: the models saved by stop requests
    tasks           \* the simulate_training tasks created so far and their positions

harnessVars == <<scn, trajs, edits, phase, rewards, metrics>>
registryVars == <<BUILT_IN, built_ins_loaded>>
trainerVars == <<rng, pc, self_config, self_scenario, self_trajectories, self_metrics_history,
                 self_episode_count, episode, step_rewards, result, train_calls>>
loadVars == <<registered, instances, load_returns>>
serialVars == <<config_obj, data, restored>>
apiVars == <<training_sessions, models, tasks>>
runVars == <<exc, call, registryVars, trainerVars, loadVars, events, first_run, serialVars,
             apiVars>>

vars == <<harnessVars, raised, runVars>>

\* ------------------------------------------------------------------------
\* Bounds of the model
\* ------------------------------------------------------------------------
MaxTrajs == 2
MaxSteps == 2
MaxEdits == 3
MaxMetricEdits == 2
MaxEpisodes == 3
MaxTrainCalls == 2
MaxLoads == 3
MaxSessions == 1
MaxSessionEpisodes == 2
MaxTasks == 2
MaxModels == 1
MaxScheduleEpisodes == 21
LongRun == 110

\* rewards are integer multiples of 1/Unit
Unit == 60 * 60

\* ------------------------------------------------------------------------
\* Python helpers
\* ------------------------------------------------------------------------
\* dict.get(k, default)
Get(d, k, default) == IF k \in DOMAIN d THEN d[k] ELSE default

\* d[k] = v on a dict
DictSet(d, k, v) == [x \in (DOMAIN d) \cup {k} |-> IF x = k THEN v ELSE d[x]]

EmptyDict == [x \in {} |-> TRUE]

\* s[lo] + ... + s[hi], halving the range so that long lists stay shallow
RECURSIVE SumRange(_, _, _)
SumRange(s, lo, hi) ==
    IF lo > hi THEN 0
    ELSE IF lo = hi THEN s[lo]
    ELSE LET mid == (lo + hi) \div 2
         IN SumRange(s, lo, mid) + SumRange(s, mid + 1, hi)

\* sum(s)
SumSeq(s) == SumRange(s, 1, Len(s))

\* sum(1 for b in s if b): number of TRUE entries of a sequence of booleans
CountTrue(s) == Cardinality({i \in 1..Len(s) : s[i]})

\* ------------------------------------------------------------------------
\* Trajectory (core/trainer.py)
\* ------------------------------------------------------------------------
Trajectory(steps, total_reward, success, metadata) ==
    [steps |-> steps, total_reward |-> total_reward,
     success |-> success, metadata |-> metadata]

\* Trajectory.__len__
TrajectoryLen(t) == Len(t.steps)

\* ------------------------------------------------------------------------
\* Reward tables of the three scenarios
\* ------------------------------------------------------------------------
CS_SUCCESS_BASE == 10
CS_FAILURE_BASE == -5
CS_TOOL_SUCCESS == 10
CS_TOOL_FAILURE == -20
CS_TOKEN_BONUS == 5
CS_SPEED_BONUS == 3
CS_BASELINE_TOKENS == 500
CS_BASELINE_TIME == 240

CR_SUCCESS_BASE == 15
CR_FAILURE_BASE == -10
CR_FALSE_POSITIVE == -15
CR_APPROPRIATE_ACTION == 15
CR_SPEED_BONUS == 5
CR_CONSTRUCTIVE_FEEDBACK == 10
CR_THOROUGH_REVIEW == 8
CR_BASELINE_TIME == 1800

DA_SUCCESS_BASE == 12
DA_FAILURE_BASE == -8
DA_QUALITY_HIGH == 15
DA_QUALITY_LOW == -10
DA_INSIGHT_ACCURATE == 20
DA_INSIGHT_INACCURATE == -10
DA_VISUALIZATION_CLEAR == 10
DA_THOROUGH_ANALYSIS == 12
DA_SPEED_BONUS == 5
DA_STATISTICALLY_VALID == 8
DA_ACTIONABLE_INSIGHT == 10
DA_BASELINE_TIME == 3600

\* severity_rewards.get(severity, 0.0)
severity_rewards_mut(severity) ==
    CASE severity = "critical" -> 20
      [] severity = "high" -> 20
      [] severity = "medium" -> 5
      [] severity = "low" -> 2
      [] OTHER -> 0

severity_rewards(severity) ==
    CASE severity = "critical" -> 20
      [] severity = "high" -> 10
      [] severity = "medium" -> 5
      [] severity = "low" -> 2
      [] OTHER -> 0

\* bonus_max * (baseline - actual) / baseline, only when actual < baseline
LinearBonus_mut(bonus_max, actual, baseline) ==
    (bonus_max * Unit * (baseline - actual)) \div baseline

LinearBonus(bonus_max, actual, baseline) ==
    IF actual < baseline
    THEN (bonus_max * Unit * (baseline - actual)) \div baseline
    ELSE 0

\* ------------------------------------------------------------------------
\* CustomerSupportScenario.broadcast_rewards
\* ------------------------------------------------------------------------
CS_outcome_reward(trajectory) ==
    IF trajectory.success THEN CS_SUCCESS_BASE * Unit ELSE CS_FAILURE_BASE * Unit

\* body of the loop over the steps
CS_step_terms_mut(step) ==
    (IF Get(step, "tool_success", FALSE)
     THEN CS_TOOL_SUCCESS * Unit ELSE (CS_TOOL_FAILURE - 10) * Unit)
    + LinearBonus(CS_TOKEN_BONUS,
                  Get(step, "tokens_used", CS_BASELINE_TOKENS), CS_BASELINE_TOKENS)
    + LinearBonus(CS_SPEED_BONUS,
                  Get(step, "response_time", CS_BASELINE_TIME), CS_BASELINE_TIME)

CS_step_terms(step) ==
    (IF Get(step, "tool_success", FALSE)
     THEN CS_TOOL_SUCCESS * Unit ELSE CS_TOOL_FAILURE * Unit)
    + LinearBonus(CS_TOKEN_BONUS,
                  Get(step, "tokens_used", CS_BASELINE_TOKENS), CS_BASELINE_TOKENS)
    + LinearBonus(CS_SPEED_BONUS,
                  Get(step, "response_time", CS_BASELINE_TIME), CS_BASELINE_TIME)

CustomerSupport_broadcast_rewards_mut(trajectory) ==
    [i \in 1..(IF TrajectoryLen(trajectory) > 1 THEN 1 ELSE TrajectoryLen(trajectory))
        |-> CS_outcome_reward(trajectory) + CS_step_terms(trajectory.steps[i])]

CustomerSupport_broadcast_rewards(trajectory) ==
    [i \in 1..TrajectoryLen(trajectory) |->
        CS_outcome_reward(trajectory) + CS_step_terms(trajectory.steps[i])]

\* ------------------------------------------------------------------------
\* CodeReviewScenario.broadcast_rewards
\* ------------------------------------------------------------------------
CR_outcome_reward(trajectory) ==
    IF trajectory.success THEN CR_SUCCESS_BASE * Unit ELSE CR_FAILURE_BASE * Unit

CR_step_terms_mut(step) ==
    (IF Get(step, "issue_found", TRUE)
     THEN severity_rewards(Get(step, "severity", "low")) * Unit ELSE 0)
    + (IF Get(step, "false_positive", FALSE) THEN CR_FALSE_POSITIVE * Unit ELSE 0)
    + (IF Get(step, "appropriate_action", FALSE) THEN CR_APPROPRIATE_ACTION * Unit ELSE 0)
    + LinearBonus(CR_SPEED_BONUS,
                  Get(step, "review_time", CR_BASELINE_TIME), CR_BASELINE_TIME)
    + (IF Get(step, "constructive_feedback", FALSE)
       THEN CR_CONSTRUCTIVE_FEEDBACK * Unit ELSE 0)
    + (IF Get(step, "thorough_review", FALSE) THEN CR_THOROUGH_REVIEW * Unit ELSE 0)

CR_step_terms(step) ==
    (IF Get(step, "issue_found", FALSE)
     THEN severity_rewards(Get(step, "severity", "low")) * Unit ELSE 0)
    + (IF Get(step, "false_positive", FALSE) THEN CR_FALSE_POSITIVE * Unit ELSE 0)
    + (IF Get(step, "appropriate_action", FALSE) THEN CR_APPROPRIATE_ACTION * Unit ELSE 0)
    + LinearBonus(CR_SPEED_BONUS,
                  Get(step, "review_time", CR_BASELINE_TIME), CR_BASELINE_TIME)
    + (IF Get(step, "constructive_feedback", FALSE)
       THEN CR_CONSTRUCTIVE_FEEDBACK * Unit ELSE 0)
    + (IF Get(step, "thorough_review", FALSE) THEN CR_THOROUGH_REVIEW * Unit ELSE 0)

CodeReview_broadcast_rewards(trajectory) ==
    [i \in 1..TrajectoryLen(trajectory) |->
        CR_outcome_reward(trajectory) + CR_step_terms(trajectory.steps[i])]

\* ------------------------------------------------------------------------
\* DataAnalysisScenario.broadcast_rewards
\* ------------------------------------------------------------------------
DA_outcome_reward(trajectory) ==
    IF trajectory.success THEN DA_SUCCESS_BASE * Unit ELSE DA_FAILURE_BASE * Unit

DA_step_terms_mut(step) ==
    (IF Get(step, "data_quality", "None") = "high" THEN DA_QUALITY_HIGH * Unit
     ELSE IF Get(step, "data_quality", "None") = "low" THEN DA_QUALITY_LOW * Unit
     ELSE 0)
    + (IF Get(step, "insight_accurate", FALSE) THEN DA_INSIGHT_ACCURATE * Unit
       ELSE IF Get(step, "insight_inaccurate", FALSE) THEN DA_INSIGHT_INACCURATE * Unit
       ELSE 0)
    + (IF Get(step, "visualization_clear", FALSE) THEN DA_VISUALIZATION_CLEAR * Unit ELSE 0)
    + (IF Get(step, "thorough_analysis", FALSE) /\ ~Get(step, "visualization_clear", FALSE)
       THEN DA_THOROUGH_ANALYSIS * Unit ELSE 0)
    + LinearBonus(DA_SPEED_BONUS,
                  Get(step, "analysis_time", DA_BASELINE_TIME), DA_BASELINE_TIME)
    + (IF Get(step, "statistically_valid", FALSE) THEN DA_STATISTICALLY_VALID * Unit ELSE 0)
    + (IF Get(step, "actionable_insight", FALSE) THEN DA_ACTIONABLE_INSIGHT * Unit ELSE 0)

DA_step_terms(step) ==
    (IF Get(step, "data_quality", "None") = "high" THEN DA_QUALITY_HIGH * Unit
     ELSE IF Get(step, "data_quality", "None") = "low" THEN DA_QUALITY_LOW * Unit
     ELSE 0)
    + (IF Get(step, "insight_accurate", FALSE) THEN DA_INSIGHT_ACCURATE * Unit
       ELSE IF Get(step, "insight_inaccurate", FALSE) THEN DA_INSIGHT_INACCURATE * Unit
       ELSE 0)
    + (IF Get(step, "visualization_clear", FALSE) THEN DA_VISUALIZATION_CLEAR * Unit ELSE 0)
    + (IF Get(step, "thorough_analysis", FALSE) THEN DA_THOROUGH_ANALYSIS * Unit ELSE 0)
    + LinearBonus(DA_SPEED_BONUS,
                  Get(step, "analysis_time", DA_BASELINE_TIME), DA_BASELINE_TIME)
    + (IF Get(step, "statistically_valid", FALSE) THEN DA_STATISTICALLY_VALID * Unit ELSE 0)
    + (IF Get(step, "actionable_insight", FALSE) THEN DA_ACTIONABLE_INSIGHT * Unit ELSE 0)

DataAnalysis_broadcast_rewards(trajectory) ==
    [i \in 1..TrajectoryLen(trajectory) |->
        DA_outcome_reward(trajectory) + DA_step_terms(trajectory.steps[i])]

\* dynamic dispatch scenario.broadcast_rewards(trajectory)
broadcast_rewards(scenario, trajectory) ==
    CASE scenario = "customer_support" -> CustomerSupport_broadcast_rewards(trajectory)
      [] scenario = "code_review" -> CodeReview_broadcast_rewards(trajectory)
      [] scenario = "data_analysis" -> DataAnalysis_broadcast_rewards(trajectory)

Scenarios == {"customer_support", "code_review", "data_analysis"}

\* ------------------------------------------------------------------------
\* calculate_metrics
\* ------------------------------------------------------------------------
\* the float n / d; d = 0 is Python's ZeroDivisionError
Ratio(n, d) == [n |-> n, d |-> d]

Zero == Ratio(0, 1)

RatEq(a, b) == a.n * b.d = b.n * a.d

\* max(0.0, r) for r with a positive denominator
RatMax0(r) == IF r.n < 0 THEN Zero ELSE r

\* min(a, b) for positive denominators
RatMin(a, b) == IF a.n * b.d <= b.n * a.d THEN a ELSE b

\* (baseline - r) / baseline
SavingsRatio(baseline, r) == Ratio(baseline * r.d - r.n, baseline * r.d)

\* Python's None and int for convergence_episode
None == {}
Some(x) == {x}

\* a metrics dict some division of which divided by zero
DividesByZero(m) ==
    \E k \in (DOMAIN m) \ {"convergence_episode"} : m[k].d = 0

\* all steps of all trajectories, in order
\* the steps of trajectories[lo..hi], in order
RECURSIVE StepsRange(_, _, _)
StepsRange(trajectories, lo, hi) ==
    IF lo > hi THEN <<>>
    ELSE IF lo = hi THEN trajectories[lo].steps
    ELSE LET mid == (lo + hi) \div 2
         IN StepsRange(trajectories, lo, mid) \o StepsRange(trajectories, mid + 1, hi)

AllSteps(trajectories) == StepsRange(trajectories, 1, Len(trajectories))

SumMeta(trajectories, k) ==
    SumSeq([i \in 1..Len(trajectories) |-> Get(trajectories[i].metadata, k, 0)])

SumTotalReward(trajectories) ==
    SumSeq([i \in 1..Len(trajectories) |-> trajectories[i].total_reward])

SumKey(steps, k) ==
    SumSeq([i \in 1..Len(steps) |-> IF k \in DOMAIN steps[i] THEN steps[i][k] ELSE 0])

IsSuccess(t) == t.success

CONVERGENCE_MIN == 100

\* Scenario.calculate_metrics (scenarios/base.py)
Scenario_calculate_metrics(trajectories) ==
    IF trajectories = <<>>
    THEN [tool_reliability |-> Zero,
          avg_tokens_used |-> Zero,
          avg_response_time |-> Zero,
          cost_reduction |-> Zero,
          total_training_time |-> Zero,
          final_reward |-> Zero,
          convergence_episode |-> None]
    ELSE LET count == Len(trajectories)
             successful == CountTrue([i \in 1..Len(trajectories) |-> IsSuccess(trajectories[i])])
         IN [tool_reliability |-> Ratio(successful, count),
             avg_tokens_used |-> Ratio(SumMeta(trajectories, "tokens_used"), count),
             avg_response_time |-> Ratio(SumMeta(trajectories, "response_time"), count),
             cost_reduction |-> RatMin(Ratio(2 * successful, 5 * count), Ratio(1, 2)),
             total_training_time |-> Zero,
             final_reward |-> Ratio(SumTotalReward(trajectories), count),
             convergence_episode |->
                 IF count >= CONVERGENCE_MIN THEN Some((count * 4) \div 5) ELSE None]

\* CustomerSupportScenario.calculate_metrics
CustomerSupport_calculate_metrics(trajectories) ==
    LET base == Scenario_calculate_metrics(trajectories)
    IN IF trajectories = <<>>
       THEN DictSet(base, "time_savings", Zero)
       ELSE LET m1 == IF CS_BASELINE_TOKENS > 0
                      THEN DictSet(base, "cost_reduction",
                               RatMax0(SavingsRatio(CS_BASELINE_TOKENS,
                                                    base["avg_tokens_used"])))
                      ELSE base
            IN IF CS_BASELINE_TIME > 0
               THEN DictSet(m1, "time_savings",
                        RatMax0(SavingsRatio(CS_BASELINE_TIME, m1["avg_response_time"])))
               ELSE DictSet(m1, "time_savings", Zero)

Truthy(step, k) == Get(step, k, FALSE)

IssueFound(step) == Truthy(step, "issue_found")
IssueFalsePositive(step) == Truthy(step, "issue_found") /\ Truthy(step, "false_positive")
HasReviewTime(step) == "review_time" \in DOMAIN step

\* complete_reviews counts t.success and t.metadata and found_all_issues
CompleteReview(t) ==
    /\ t.success
    /\ DOMAIN t.metadata # {}
    /\ Get(t.metadata, "found_all_issues", FALSE)

\* x / y if y > 0 else 0.0
GuardedRatio_mut(x, y) == Ratio(x, y)

GuardedRatio(x, y) == IF y > 0 THEN Ratio(x, y) ELSE Zero

\* CodeReviewScenario.calculate_metrics
CodeReview_calculate_metrics(trajectories) ==
    LET base == Scenario_calculate_metrics(trajectories)
    IN IF trajectories = <<>>
       THEN [k \in {"review_accuracy", "false_positive_rate", "review_completeness"}
                |-> Zero] @@ base
       ELSE LET steps == AllSteps(trajectories)
                issues_found == CountTrue([i \in 1..Len(steps) |-> IssueFound(steps[i])])
                false_positives == CountTrue([i \in 1..Len(steps) |-> IssueFalsePositive(steps[i])])
                total_possible_issues == SumKey(steps, "total_issues")
                complete_reviews == CountTrue([i \in 1..Len(trajectories) |-> CompleteReview(trajectories[i])])
                review_count == CountTrue([i \in 1..Len(steps) |-> HasReviewTime(steps[i])])
            IN [review_accuracy |-> GuardedRatio(issues_found, total_possible_issues),
                false_positive_rate |-> GuardedRatio(false_positives, issues_found),
                review_completeness |->
                    GuardedRatio(complete_reviews, Len(trajectories)),
                avg_review_time |->
                    GuardedRatio(SumKey(steps, "review_time"), review_count)] @@ base

IsInsight(step) == Truthy(step, "insight_accurate") \/ Truthy(step, "insight_inaccurate")
IsAccurateInsight(step) == IsInsight(step) /\ Truthy(step, "insight_accurate")
HasDataQuality(step) == "data_quality" \in DOMAIN step
IsHighQuality(step) == HasDataQuality(step) /\ step["data_quality"] = "high"
HasVisualization(step) == "visualization_clear" \in DOMAIN step
IsClearVisualization(step) == HasVisualization(step) /\ step["visualization_clear"]
IsActionable(step) == Truthy(step, "actionable_insight")

\* DataAnalysisScenario.calculate_metrics
DataAnalysis_calculate_metrics(trajectories) ==
    LET base == Scenario_calculate_metrics(trajectories)
    IN IF trajectories = <<>>
       THEN [k \in {"analysis_accuracy", "data_quality", "insight_quality",
                    "visualization_quality"} |-> Zero] @@ base
       ELSE LET steps == AllSteps(trajectories)
                total_insights == CountTrue([i \in 1..Len(steps) |-> IsInsight(steps[i])])
                accurate_insights == CountTrue([i \in 1..Len(steps) |-> IsAccurateInsight(steps[i])])
                high_quality_data == CountTrue([i \in 1..Len(steps) |-> IsHighQuality(steps[i])])
                total_data_steps == CountTrue([i \in 1..Len(steps) |-> HasDataQuality(steps[i])])
                clear_visualizations == CountTrue([i \in 1..Len(steps) |-> IsClearVisualization(steps[i])])
                total_visualizations == CountTrue([i \in 1..Len(steps) |-> HasVisualization(steps[i])])
                actionable_insights == CountTrue([i \in 1..Len(steps) |-> IsActionable(steps[i])])
            IN [analysis_accuracy |-> GuardedRatio(accurate_insights, total_insights),
                data_quality |-> GuardedRatio(high_quality_data, total_data_steps),
                visualization_quality |->
                    GuardedRatio(clear_visualizations, total_visualizations),
                insight_quality |->
                    GuardedRatio(actionable_insights, total_insights)] @@ base

\* dynamic dispatch scenario.calculate_metrics(trajectories)
calculate_metrics(scenario, trajectories) ==
    CASE scenario = "customer_support" -> CustomerSupport_calculate_metrics(trajectories)
      [] scenario = "code_review" -> CodeReview_calculate_metrics(trajectories)
      [] scenario = "data_analysis" -> DataAnalysis_calculate_metrics(trajectories)
      [] scenario = "base" -> Scenario_calculate_metrics(trajectories)

\* ------------------------------------------------------------------------
\* ScenarioRegistry (scenarios/registry.py)
\* ------------------------------------------------------------------------
\* classes that inherit from Scenario, named by their name attribute
ScenarioClasses == Scenarios

NoException == [scenario_name |-> "", available_scenarios |-> {}]

\* ScenarioNotFoundError(scenario_name, available_scenarios); the order of
\* the list of names is not modelled
ScenarioNotFoundError(scenario_name, available_scenarios) ==
    [scenario_name |-> scenario_name, available_scenarios |-> available_scenarios]

\* ScenarioRegistry._ensure_built_in_loaded, as the registry it leaves
ensure_built_in_loaded(registry) ==
    IF ~registry.loaded
    THEN [BUILT_IN |-> DictSet(registry.BUILT_IN, "customer_support", "customer_support"),
          loaded |-> TRUE]
    ELSE registry

\* ScenarioRegistry.load: the registry it leaves, and either the class of the
\* new instance or the raised ScenarioNotFoundError
ScenarioRegistry_load_mut(registry, scenario_name) ==
    LET after == ensure_built_in_loaded(registry)
    IN IF scenario_name \notin DOMAIN after.BUILT_IN
       THEN [registry |-> after, ok |-> FALSE, class |-> "",
             error |-> ScenarioNotFoundError(scenario_name, DOMAIN registry.BUILT_IN)]
       ELSE [registry |-> after, ok |-> TRUE,
             class |-> after.BUILT_IN[scenario_name], error |-> NoException]

ScenarioRegistry_load(registry, scenario_name) ==
    LET after == ensure_built_in_loaded(registry)
    IN IF scenario_name \notin DOMAIN after.BUILT_IN
       THEN [registry |-> after, ok |-> FALSE, class |-> "",
             error |-> ScenarioNotFoundError(scenario_name, DOMAIN after.BUILT_IN)]
       ELSE [registry |-> after, ok |-> TRUE,
             class |-> after.BUILT_IN[scenario_name], error |-> NoException]

Registry == [BUILT_IN |-> BUILT_IN, loaded |-> built_ins_loaded]

\* names and classes the callers of the registry use
RegistryNames == {"customer_support", "x"}
RegistrableClasses == {"code_review", "object"}
\* names the callers of load ask for
LoadNames == RegistryNames \cup Scenarios

\* the registry is only called while no train() is running
RegistryCallable == pc = "no_trainer"

\* ScenarioRegistry.register: the registry it leaves and what it raises
ScenarioRegistry_register_mut(registry, name, scenario_class) ==
    IF scenario_class \notin ScenarioClasses
    THEN [registry |-> registry, raised |-> "ValueError"]
    ELSE [registry |-> [BUILT_IN |-> DictSet(registry.BUILT_IN, name, scenario_class),
                        loaded |-> registry.loaded],
          raised |-> IF name \in DOMAIN registry.BUILT_IN THEN "ValueError" ELSE "none"]

ScenarioRegistry_register(registry, name, scenario_class) ==
    IF name \in DOMAIN registry.BUILT_IN
    THEN [registry |-> registry, raised |-> "ValueError"]
    ELSE IF scenario_class \notin ScenarioClasses
    THEN [registry |-> registry, raised |-> "ValueError"]
    ELSE [registry |-> [BUILT_IN |-> DictSet(registry.BUILT_IN, name, scenario_class),
                        loaded |-> registry.loaded],
          raised |-> "none"]

\* ScenarioRegistry.register(name, scenario_class)
Register ==
    /\ RegistryCallable
    /\ \E name \in RegistryNames : \E scenario_class \in RegistrableClasses :
          LET done == ScenarioRegistry_register(Registry, name, scenario_class)
          IN /\ call' = [op |-> "register", args |-> <<name, scenario_class>>]
             /\ raised' = done.raised
             /\ BUILT_IN' = done.registry.BUILT_IN
             /\ registered' = IF done.raised = "none"
                              THEN DictSet(registered, name, scenario_class)
                              ELSE registered
    /\ exc' = NoException
    /\ UNCHANGED <<harnessVars, apiVars, built_ins_loaded, trainerVars, instances, load_returns,
                   events, first_run, serialVars>>

\* ScenarioRegistry.unregister(name)
Unregister ==
    /\ RegistryCallable
    /\ \E name \in RegistryNames :
          /\ call' = [op |-> "unregister", args |-> <<name>>]
          /\ IF name \notin DOMAIN BUILT_IN
             THEN /\ raised' = "ScenarioNotFoundError"
                  /\ exc' = ScenarioNotFoundError(name, DOMAIN BUILT_IN)
                  /\ UNCHANGED <<BUILT_IN, registered>>
             ELSE /\ raised' = "none"
                  /\ BUILT_IN' = [x \in (DOMAIN BUILT_IN) \ {name} |-> BUILT_IN[x]]
                  /\ registered' = [x \in (DOMAIN registered) \ {name} |-> registered[x]]
                  /\ exc' = NoException
    /\ UNCHANGED <<harnessVars, apiVars, built_ins_loaded, trainerVars, instances, load_returns,
                   events, first_run, serialVars>>

\* a clear() that empties the mapping and leaves _built_ins_loaded as it is
Clear_mut ==
    /\ RegistryCallable
    /\ call' = [op |-> "clear", args |-> <<>>]
    /\ BUILT_IN' = EmptyDict
    /\ registered' = EmptyDict
    /\ raised' = "none"
    /\ exc' = NoException
    /\ UNCHANGED <<harnessVars, apiVars, built_ins_loaded, trainerVars, instances, load_returns,
                   events, first_run, serialVars>>

\* ScenarioRegistry.clear()
Clear ==
    /\ RegistryCallable
    /\ call' = [op |-> "clear", args |-> <<>>]
    /\ BUILT_IN' = EmptyDict
    /\ built_ins_loaded' = FALSE
    /\ registered' = EmptyDict
    /\ raised' = "none"
    /\ exc' = NoException
    /\ UNCHANGED <<harnessVars, apiVars, trainerVars, instances, load_returns, events, first_run,
                   serialVars>>

\* ScenarioRegistry.list()
List ==
    /\ RegistryCallable
    /\ call' = [op |-> "list", args |-> <<>>]
    /\ LET after == ensure_built_in_loaded(Registry)
       IN /\ BUILT_IN' = after.BUILT_IN
          /\ built_ins_loaded' = after.loaded
    /\ raised' = "none"
    /\ exc' = NoException
    /\ UNCHANGED <<harnessVars, apiVars, trainerVars, loadVars, events, first_run, serialVars>>

\* ScenarioRegistry.load(scenario_name): scenario_class() creates a new object
Load ==
    /\ RegistryCallable
    /\ Len(instances) < MaxLoads
    /\ \E scenario_name \in LoadNames :
          LET loaded == ScenarioRegistry_load(Registry, scenario_name)
          IN /\ call' = [op |-> "load", args |-> <<scenario_name>>]
             /\ BUILT_IN' = loaded.registry.BUILT_IN
             /\ built_ins_loaded' = loaded.registry.loaded
             /\ IF loaded.ok
                THEN /\ instances' = Append(instances, loaded.class)
                     /\ load_returns' = Append(load_returns, Len(instances) + 1)
                     /\ raised' = "none"
                     /\ exc' = NoException
                ELSE /\ raised' = "ScenarioNotFoundError"
                     /\ exc' = loaded.error
                     /\ UNCHANGED <<instances, load_returns>>
    /\ UNCHANGED <<harnessVars, apiVars, trainerVars, registered, events, first_run, serialVars>>

\* ------------------------------------------------------------------------
\* Trainer (core/trainer.py)
\* ------------------------------------------------------------------------
\* valid TrainingConfig objects: episodes > 0, seed None or >= 0
Configs ==
    [scenario : RegistryNames, episodes : 1..MaxEpisodes, seed : {None, Some(0), Some(1)}]

NoConfig == [scenario |-> "", episodes |-> 0, seed |-> None]

NoResult == [episodes_completed |-> -1]

\* what random.random(), random.randint(3, 8), random.randint(150, 300) and
\* random.uniform(0.5, 2.0) return after random.seed(s); u is random() in percent
Draws ==
    {[u |-> 10, num_steps |-> 3, tokens_used |-> 150, response_time |-> 1],
     [u |-> 80, num_steps |-> 8, tokens_used |-> 300, response_time |-> 2]}

\* seeds that random.seed can be given: a configured seed or an episode index
SeedSpace == 0..(MaxEpisodes - 1) \cup {0, 1}

\* self.config.seed if self.config.seed else episode
SeedFor(cfg, ep) ==
    IF cfg.seed # None /\ cfg.seed # Some(0)
    THEN CHOOSE x \in cfg.seed : TRUE
    ELSE ep

\* random.random() < min(0.6 + (episode / episodes) * 0.35, 0.95), in percent
DrawSucceeds(u, ep, episodes) ==
    LET rate == IF 60 * episodes + 35 * ep <= 95 * episodes
                THEN 60 * episodes + 35 * ep ELSE 95 * episodes
    IN u * episodes < rate

\* a synthesis that records the tokens as a negative number
collect_trajectory_online_mut(cfg, random, ep) ==
    LET draw == random[SeedFor(cfg, ep)]
        success == DrawSucceeds(draw.u, ep, cfg.episodes)
        steps == [i \in 1..draw.num_steps |->
                    [state |-> i - 1, action |-> i - 1,
                     reward |-> IF success THEN 1 ELSE 0,
                     tool_success |-> success]]
    IN Trajectory(steps,
                  IF success THEN draw.num_steps ELSE 0,
                  success,
                  [episode |-> ep, tokens_used |-> 0 - draw.tokens_used,
                   response_time |-> draw.response_time])

\* Trainer._collect_trajectory_online
collect_trajectory_online(cfg, random, ep) ==
    LET draw == random[SeedFor(cfg, ep)]
        success == DrawSucceeds(draw.u, ep, cfg.episodes)
        steps == [i \in 1..draw.num_steps |->
                    [state |-> i - 1, action |-> i - 1,
                     reward |-> IF success THEN 1 ELSE 0,
                     tool_success |-> success]]
    IN Trajectory(steps,
                  IF success THEN draw.num_steps ELSE 0,
                  success,
                  [episode |-> ep, tokens_used |-> draw.tokens_used,
                   response_time |-> draw.response_time])

\* episode % max(1, self.config.episodes // 10) == 0: the loop index taken
\* for the episode count
TrackingDue_mut(ep, episodes) ==
    LET every == IF episodes \div 10 > 1 THEN episodes \div 10 ELSE 1
    IN ep % every = 0

\* (episode + 1) % max(1, self.config.episodes // 20) == 0: twice as often
TrackingDue_half(ep, episodes) ==
    LET every == IF episodes \div 20 > 1 THEN episodes \div 20 ELSE 1
    IN (ep + 1) % every = 0

\* (episode + 1) % max(1, self.config.episodes // 10) == 0
TrackingDue(ep, episodes) ==
    LET every == IF episodes \div 10 > 1 THEN episodes \div 10 ELSE 1
    IN (ep + 1) % every = 0

RECENT_WINDOW == 100

\* self.trajectories: the whole list instead of its tail
Recent_mut(ts) == ts

\* self.trajectories[-100:]
Recent(ts) ==
    IF Len(ts) <= RECENT_WINDOW THEN ts
    ELSE SubSeq(ts, Len(ts) - RECENT_WINDOW + 1, Len(ts))

\* self._episode_count = episode + 1
NextEpisodeCount_mut(ep) == ep

NextEpisodeCount(ep) == ep + 1

\* TrainingMetrics.__post_init__ accepts the values
MetricsInRange(m, completed) ==
    /\ m["tool_reliability"].n >= 0
    /\ m["tool_reliability"].n <= m["tool_reliability"].d
    /\ m["cost_reduction"].n >= 0
    /\ m["cost_reduction"].n <= m["cost_reduction"].d
    /\ m["avg_tokens_used"].n >= 0
    /\ m["avg_response_time"].n >= 0
    /\ completed >= 0

\* the TrainingResult built by Trainer._create_result
create_result(cfg, final_metrics, completed, ts, history) ==
    [config |-> cfg,
     metrics |-> [tool_reliability |-> final_metrics["tool_reliability"],
                  avg_tokens_used |-> final_metrics["avg_tokens_used"],
                  avg_response_time |-> final_metrics["avg_response_time"],
                  cost_reduction |-> final_metrics["cost_reduction"],
                  episodes_completed |-> completed,
                  total_training_time |-> final_metrics["total_training_time"],
                  final_reward |-> final_metrics["final_reward"],
                  convergence_episode |-> final_metrics["convergence_episode"]],
     trained_model_path |-> <<cfg.scenario, "langchain", cfg.episodes>>,
     artifacts |-> [trajectories_count |-> Len(ts), metrics_history |-> history]]

\* self.trajectories = [] in Trainer.__init__: a list of the new instance
InitialTrajectories_mut(held) == held

InitialTrajectories(held) == <<>>

\* one entry of the log of calls made by train()
Event(op, ep) == [op |-> op, episode |-> ep]

\* trainer = Trainer(config, scenario), for config and scenario drawn from
\* the given sets
NewTrainerWith(configs, scenario_args) ==
    /\ pc = "no_trainer"
    /\ \E cfg \in configs : \E arg \in scenario_args :
          /\ call' = [op |-> "Trainer", args |-> <<cfg, arg>>]
          /\ IF arg # None
             THEN /\ self_scenario' = CHOOSE c \in arg : TRUE
                  /\ self_config' = cfg
                  /\ pc' = "idle"
                  /\ raised' = "none"
                  /\ exc' = NoException
                  /\ UNCHANGED <<registryVars, instances, load_returns>>
             ELSE LET loaded == ScenarioRegistry_load(Registry, cfg.scenario)
                  IN /\ BUILT_IN' = loaded.registry.BUILT_IN
                     /\ built_ins_loaded' = loaded.registry.loaded
                     /\ IF loaded.ok
                        THEN /\ self_scenario' = loaded.class
                             /\ self_config' = cfg
                             /\ pc' = "idle"
                             /\ raised' = "none"
                             /\ exc' = NoException
                             /\ instances' = Append(instances, loaded.class)
                             /\ load_returns' = Append(load_returns, Len(instances) + 1)
                        ELSE /\ raised' = "ScenarioNotFoundError"
                             /\ exc' = loaded.error
                             /\ UNCHANGED <<self_scenario, self_config, pc, instances,
                                            load_returns>>
    /\ self_trajectories' = InitialTrajectories(self_trajectories)
    /\ self_metrics_history' = <<>>
    /\ self_episode_count' = 0
    /\ UNCHANGED <<harnessVars, apiVars, rng, episode, step_rewards, result, train_calls, registered,
                   events, first_run, serialVars>>

\* Trainer(config) or Trainer(config, scenario=...) by a caller of the registry
NewTrainer ==
    NewTrainerWith(Configs, {None} \cup {Some(c) : c \in ScenarioClasses})

\* train(): environment = self.scenario.create_environment()
TrainBegin ==
    /\ pc \in {"idle", "done"}
    /\ train_calls < MaxTrainCalls
    /\ train_calls' = train_calls + 1
    /\ call' = [op |-> "train", args |-> <<>>]
    /\ raised' = "none"
    /\ episode' = 0
    /\ pc' = "collect"
    /\ events' = <<Event("create_environment", 0)>>
    /\ UNCHANGED <<harnessVars, apiVars, exc, registryVars, loadVars, first_run, serialVars, rng, self_config, self_scenario, self_trajectories,
                   self_metrics_history, self_episode_count, step_rewards, result>>

\* trajectory = self._collect_trajectory_online(environment, episode)
\* self.trajectories.append(trajectory)
Collect ==
    /\ pc = "collect"
    /\ self_trajectories' = Append(self_trajectories, collect_trajectory_online(self_config, rng, episode))
    /\ pc' = "broadcast"
    /\ events' = events \o <<Event("collect_trajectory_online", episode),
                              Event("trajectories.append", episode)>>
    /\ UNCHANGED <<harnessVars, apiVars, raised, exc, call, registryVars, loadVars, first_run, serialVars, rng, self_config, self_scenario,
                   self_metrics_history, self_episode_count, episode, step_rewards, result,
                   train_calls>>

\* step_rewards = self.scenario.broadcast_rewards(trajectory), with the
\* policy update after it left out
Broadcast_mut ==
    /\ pc = "broadcast"
    /\ step_rewards' = broadcast_rewards(self_scenario, self_trajectories[Len(self_trajectories)])
    /\ pc' = "track"
    /\ events' = Append(events, Event("broadcast_rewards", episode))
    /\ UNCHANGED <<harnessVars, apiVars, raised, exc, call, registryVars, loadVars, first_run, serialVars,
                   rng, self_config, self_scenario, self_trajectories, self_metrics_history,
                   self_episode_count, episode, result, train_calls>>

\* step_rewards = self.scenario.broadcast_rewards(trajectory)
Broadcast ==
    /\ pc = "broadcast"
    /\ step_rewards' = broadcast_rewards(self_scenario, self_trajectories[Len(self_trajectories)])
    /\ pc' = "update"
    /\ events' = Append(events, Event("broadcast_rewards", episode))
    /\ UNCHANGED <<harnessVars, apiVars, raised, exc, call, registryVars, loadVars, first_run, serialVars, rng, self_config, self_scenario,
                   self_trajectories, self_metrics_history, self_episode_count, episode, result,
                   train_calls>>

\* self._update_policy(trajectory, step_rewards, ...): a placeholder
UpdatePolicy ==
    /\ pc = "update"
    /\ pc' = "track"
    /\ events' = Append(events, Event("update_policy", episode))
    /\ UNCHANGED <<harnessVars, apiVars, raised, exc, call, registryVars, loadVars, first_run, serialVars, rng, self_config, self_scenario,
                   self_trajectories, self_metrics_history, self_episode_count, episode, step_rewards,
                   result, train_calls>>

\* if due: self._track_metrics(episode + 1); self._episode_count = episode + 1;
\* then the next iteration of the loop or the end of it
Track ==
    /\ pc = "track"
    /\ LET m == calculate_metrics(self_scenario, Recent(self_trajectories))
       IN IF TrackingDue(episode, self_config.episodes) /\ self_trajectories # <<>>
          THEN IF DividesByZero(m)
               THEN /\ raised' = "ZeroDivisionError"
                    /\ pc' = "failed"
                    /\ events' = Append(events, Event("track_metrics", episode + 1))
                    /\ UNCHANGED <<self_metrics_history, self_episode_count, episode>>
               ELSE /\ self_metrics_history' =
                          Append(self_metrics_history, DictSet(m, "episode", episode + 1))
                    /\ events' = Append(events, Event("track_metrics", episode + 1))
                    /\ self_episode_count' = NextEpisodeCount(episode)
                    /\ episode' = episode + 1
                    /\ pc' = IF episode + 1 < self_config.episodes THEN "collect" ELSE "result"
                    /\ UNCHANGED raised
          ELSE /\ self_episode_count' = NextEpisodeCount(episode)
               /\ episode' = episode + 1
               /\ pc' = IF episode + 1 < self_config.episodes THEN "collect" ELSE "result"
               /\ UNCHANGED <<self_metrics_history, raised, events>>
    /\ UNCHANGED <<harnessVars, apiVars, exc, call, registryVars, loadVars, first_run, serialVars, rng, self_config, self_scenario,
                   self_trajectories, step_rewards, result, train_calls>>

\* return self._create_result()
CreateResult ==
    /\ pc = "result"
    /\ events' = Append(events, Event("create_result", self_config.episodes))
    /\ LET m == calculate_metrics(self_scenario, self_trajectories)
       IN IF DividesByZero(m)
          THEN /\ raised' = "ZeroDivisionError"
               /\ pc' = "failed"
               /\ UNCHANGED result
          ELSE IF ~MetricsInRange(m, self_episode_count)
          THEN /\ raised' = "ValueError"
               /\ pc' = "failed"
               /\ UNCHANGED result
          ELSE /\ result' = create_result(self_config, m, self_episode_count, self_trajectories,
                                          self_metrics_history)
               /\ pc' = "done"
               /\ UNCHANGED raised
    /\ UNCHANGED <<harnessVars, apiVars, exc, call, registryVars, loadVars, first_run, serialVars, rng, self_config, self_scenario,
                   self_trajectories, self_metrics_history, self_episode_count, episode, step_rewards,
                   train_calls>>

\* no earlier Trainer has been discarded
NoFirstRun ==
    [config |-> NoConfig, scenario |-> "", trajectories |-> <<>>, metrics |-> EmptyDict,
     calls |-> 0]

\* no TrainingConfig has been constructed
NoConfigObj == [scenario |-> ""]

\* nothing loaded, no train() running, nothing serialised
NoLog ==
    /\ registered = EmptyDict
    /\ instances = <<>>
    /\ load_returns = <<>>
    /\ events = <<>>
    /\ first_run = NoFirstRun
    /\ config_obj = NoConfigObj
    /\ data = EmptyDict
    /\ restored = NoResult
    /\ training_sessions = EmptyDict
    /\ models = <<>>
    /\ tasks = <<>>

\* values of the registry and Trainer variables while only the scenario
\* methods are exercised
NoRun ==
    /\ NoLog
    /\ exc = NoException
    /\ call = [op |-> "none", args |-> <<>>]
    /\ BUILT_IN = EmptyDict
    /\ built_ins_loaded = FALSE
    /\ rng = [x \in {} |-> 0]
    /\ pc = "no_trainer"
    /\ self_config = NoConfig
    /\ self_scenario = ""
    /\ self_trajectories = <<>>
    /\ self_metrics_history = <<>>
    /\ self_episode_count = 0
    /\ episode = 0
    /\ step_rewards = <<>>
    /\ result = NoResult
    /\ train_calls = 0

InitTrainer ==
    /\ scn = "customer_support"
    /\ trajs = <<>>
    /\ edits = 0
    /\ phase = "build"
    /\ rewards = <<>>
    /\ metrics = EmptyDict
    /\ raised = "none"
    /\ exc = NoException
    /\ call = [op |-> "none", args |-> <<>>]
    /\ BUILT_IN = EmptyDict
    /\ built_ins_loaded = FALSE
    /\ rng \in [SeedSpace -> Draws]
    /\ pc = "no_trainer"
    /\ self_config = NoConfig
    /\ self_scenario = ""
    /\ self_trajectories = <<>>
    /\ self_metrics_history = <<>>
    /\ self_episode_count = 0
    /\ episode = 0
    /\ step_rewards = <<>>
    /\ result = NoResult
    /\ train_calls = 0
    /\ NoLog

NextTrainer ==
    \/ Register
    \/ Unregister
    \/ Clear
    \/ List
    \/ NewTrainer
    \/ TrainBegin
    \/ Collect
    \/ Broadcast
    \/ UpdatePolicy
    \/ Track
    \/ CreateResult

SpecTrainer == InitTrainer /\ [][NextTrainer]_vars

\* ------------------------------------------------------------------------
\* Two Trainers one after the other in one process: the first is trained
\* and dropped, its trajectories and final metrics are kept, and a second
\* one is constructed for the same scenario and episode count.
\* ------------------------------------------------------------------------
ReproConfigs ==
    IF first_run = NoFirstRun THEN Configs
    ELSE {c \in Configs : /\ c.episodes = first_run.config.episodes
                          /\ c.scenario = first_run.config.scenario}

ReproScenarios ==
    IF first_run = NoFirstRun THEN {Some(c) : c \in ScenarioClasses}
    ELSE {Some(first_run.scenario)}

\* Trainer(config, scenario=scenario)
NewReproTrainer == NewTrainerWith(ReproConfigs, ReproScenarios)

\* the caller keeps trainer.trajectories and result.metrics and drops the Trainer
Discard ==
    /\ pc = "done"
    /\ first_run = NoFirstRun
    /\ first_run' = [config |-> self_config, scenario |-> self_scenario,
                     trajectories |-> self_trajectories, metrics |-> result.metrics,
                     calls |-> train_calls]
    /\ pc' = "no_trainer"
    /\ train_calls' = 0
    /\ call' = [op |-> "discard", args |-> <<>>]
    /\ UNCHANGED <<harnessVars, apiVars, raised, exc, registryVars, loadVars, events, serialVars, rng,
                   self_config, self_scenario, self_trajectories, self_metrics_history,
                   self_episode_count, episode, step_rewards, result>>

NextRepro ==
    \/ NewReproTrainer
    \/ TrainBegin
    \/ Collect
    \/ Broadcast
    \/ UpdatePolicy
    \/ Track
    \/ CreateResult
    \/ Discard

SpecRepro == InitTrainer /\ [][NextRepro]_vars

\* ------------------------------------------------------------------------
\* TrainingConfig, TrainingMetrics and TrainingResult: construction,
\* to_dict and from_dict.  Floats are Ratio records with positive
\* denominators; a dict and a keyword-argument list are functions of keys.
\* ------------------------------------------------------------------------
RatLess(a, b) == a.n * b.d < b.n * a.d

\* v.lower() on the names used here
Lower(v) ==
    CASE v = "Test" -> "test"
      [] v = "Code-Review_2" -> "code-review_2"
      [] OTHER -> v

\* v.replace("_", "").replace("-", "").isalnum() on the names used here
IsAlnumName(v) == v \in {"Test", "test", "Code-Review_2", "code-review_2"}

\* the defaults of the optional fields of TrainingConfig
ConfigDefaults ==
    [framework |-> "langchain", episodes |-> 10000, gpu_provider |-> "auto",
     gpu_type |-> "auto", learning_rate |-> Ratio(3, 10000),
     discount_factor |-> Ratio(95, 100), batch_size |-> 64,
     max_steps_per_episode |-> 100, checkpoint_interval |-> 1000, verbose |-> TRUE,
     seed |-> None]

\* the Field constraints and the scenario validator, on the field values v
ConfigFieldsValid(v) ==
    /\ v["scenario"] # ""
    /\ IsAlnumName(v["scenario"])
    /\ v["framework"] \in {"langchain", "autogen", "crewai"}
    /\ v["episodes"] > 0
    /\ v["gpu_provider"] \in {"auto", "local", "runpod", "lambda", "cloud"}
    /\ RatLess(Zero, v["learning_rate"])
    /\ RatLess(Zero, v["discount_factor"])
    /\ RatLess(v["discount_factor"], Ratio(1, 1))
    /\ v["batch_size"] > 0
    /\ v["max_steps_per_episode"] > 0
    /\ v["checkpoint_interval"] >= 0
    /\ \A x \in v["seed"] : x >= 0

\* a constructor that replaces a non-positive episodes by 1 instead of raising
ConfigFieldsClamped(v) ==
    IF v["episodes"] <= 0 THEN [v EXCEPT !["episodes"] = 1] ELSE v

ConfigFieldsChecked_mut(v) ==
    [raised |-> IF ConfigFieldsValid(ConfigFieldsClamped(v)) THEN "none" ELSE "ValidationError",
     value |-> ConfigFieldsClamped(v)]

ConfigFieldsChecked(v) ==
    [raised |-> IF ConfigFieldsValid(v) THEN "none" ELSE "ValidationError", value |-> v]

\* TrainingConfig(**kwargs): [raised, value]; extra keys are kept
TrainingConfig(kwargs) ==
    IF "scenario" \notin DOMAIN kwargs
    THEN [raised |-> "ValidationError", value |-> NoConfigObj]
    ELSE LET given == [k \in (DOMAIN kwargs) \cup (DOMAIN ConfigDefaults) |->
                          IF k \in DOMAIN kwargs THEN kwargs[k] ELSE ConfigDefaults[k]]
             checked == ConfigFieldsChecked(given)
         IN  IF checked.raised # "none"
             THEN [raised |-> checked.raised, value |-> NoConfigObj]
             ELSE [raised |-> "none",
                   value |-> [checked.value EXCEPT !["scenario"] = Lower(@)]]

\* TrainingConfig.to_dict: self.model_dump()
TrainingConfig_to_dict(self) == [k \in DOMAIN self |-> self[k]]

\* TrainingConfig.from_dict: cls(**data)
TrainingConfig_from_dict(d) == TrainingConfig(d)

\* TrainingMetrics(**kwargs) with __post_init__: [raised, value]
TrainingMetrics(kwargs) ==
    LET given == [k \in (DOMAIN kwargs) \cup {"total_training_time", "final_reward",
                                              "convergence_episode"} |->
                     IF k \in DOMAIN kwargs THEN kwargs[k]
                     ELSE IF k = "convergence_episode" THEN None ELSE Zero]
    IN  [raised |-> IF MetricsInRange(given, given["episodes_completed"])
                    THEN "none" ELSE "ValueError",
         value |-> given]

\* TrainingMetrics.to_dict: asdict(self)
TrainingMetrics_to_dict(self) == [k \in DOMAIN self |-> self[k]]

\* TrainingResult(**kwargs) at wall-clock time now
TrainingResult(kwargs, now) ==
    [config |-> kwargs["config"],
     metrics |-> kwargs["metrics"],
     trained_model_path |-> kwargs["trained_model_path"],
     artifacts |-> Get(kwargs, "artifacts", EmptyDict),
     timestamp |-> Get(kwargs, "timestamp", now),
     version |-> Get(kwargs, "version", "0.1.0")]

\* TrainingResult.to_dict
TrainingResult_to_dict(self) ==
    [k \in {"config", "metrics", "trained_model_path", "artifacts", "timestamp", "version"} |->
        CASE k = "config" -> TrainingConfig_to_dict(self.config)
          [] k = "metrics" -> TrainingMetrics_to_dict(self.metrics)
          [] k = "trained_model_path" -> self.trained_model_path
          [] k = "artifacts" -> self.artifacts
          [] k = "timestamp" -> self.timestamp
          [] k = "version" -> self.version]

\* a from_dict that stamps the restored result with the current time and version
TrainingResult_from_dict_mut(d, now) ==
    LET c == TrainingConfig_from_dict(d["config"])
        m == TrainingMetrics(d["metrics"])
    IN  [raised |-> IF c.raised # "none" THEN c.raised ELSE m.raised,
         value |-> TrainingResult([config |-> c.value, metrics |-> m.value,
                                   trained_model_path |-> d["trained_model_path"],
                                   artifacts |-> Get(d, "artifacts", EmptyDict)], now)]

\* TrainingResult.from_dict(data) at wall-clock time now: [raised, value]
TrainingResult_from_dict(d, now) ==
    LET c == TrainingConfig_from_dict(d["config"])
        m == TrainingMetrics(d["metrics"])
    IN  [raised |-> IF c.raised # "none" THEN c.raised ELSE m.raised,
         value |-> TrainingResult([config |-> c.value, metrics |-> m.value,
                                   trained_model_path |-> d["trained_model_path"],
                                   artifacts |-> Get(d, "artifacts", EmptyDict),
                                   timestamp |-> Get(d, "timestamp", now),
                                   version |-> Get(d, "version", "0.1.0")], now)]

\* keyword arguments given to TrainingConfig
ConfigArgs ==
    [scenario : {"Test", "Code-Review_2", "bad name"},
     episodes : {-100, 0, 1},
     learning_rate : {Ratio(-1, 1000), Zero, Ratio(3, 10000), Ratio(3, 2)},
     discount_factor : {Ratio(-1, 2), Zero, Ratio(99, 100), Ratio(1, 1), Ratio(3, 2)},
     batch_size : {-1, 0, 32}]

\* keyword arguments given to TrainingMetrics
MetricsArgs ==
    [tool_reliability : {Ratio(947, 1000), Ratio(3, 2)},
     avg_tokens_used : {Ratio(156, 1)},
     avg_response_time : {Ratio(8, 10)},
     cost_reduction : {Ratio(435, 1000)},
     episodes_completed : {-1, 10000}]
    \cup
    [tool_reliability : {Ratio(1, 1)},
     avg_tokens_used : {Zero},
     avg_response_time : {Zero},
     cost_reduction : {Zero},
     episodes_completed : {0},
     total_training_time : {Ratio(36005, 10)},
     final_reward : {Ratio(-955, 10)},
     convergence_episode : {Some(8500)}]

\* the other keyword arguments given to TrainingResult
ResultArgs ==
    [trained_model_path : {"./models/test"}]
    \cup
    [trained_model_path : {""},
     artifacts : {EmptyDict, [checkpoints |-> <<"./ckpt/1", "./ckpt/2">>]},
     timestamp : {"2025-01-01T00:00:00"},
     version : {"0.1.0", "0.2.0"}]

\* datetime.now(UTC).isoformat() when a result is constructed and when a
\* dict is read back later
ConstructedAt == "2026-01-01T00:00:00+00:00"
RestoredAt == "2026-01-01T00:00:01+00:00"

NoData == EmptyDict

\* config = TrainingConfig(scenario=..., episodes=..., ...)
NewConfig ==
    /\ result = NoResult
    /\ \E kwargs \in ConfigArgs :
          LET made == TrainingConfig(kwargs)
          IN  /\ call' = [op |-> "TrainingConfig", args |-> kwargs]
              /\ raised' = made.raised
              /\ config_obj' = IF made.raised # "none" THEN config_obj ELSE made.value
    /\ UNCHANGED <<harnessVars, apiVars, exc, registryVars, trainerVars, loadVars, events, first_run,
                   data, restored>>

\* result = TrainingResult(config=config, metrics=TrainingMetrics(...), ...)
NewResult ==
    /\ config_obj # NoConfigObj
    /\ data = NoData
    /\ \E margs \in MetricsArgs, rargs \in ResultArgs :
          LET m == TrainingMetrics(margs)
              kwargs == [k \in (DOMAIN rargs) \cup {"config", "metrics"} |->
                            CASE k = "config" -> config_obj
                              [] k = "metrics" -> m.value
                              [] OTHER -> rargs[k]]
          IN  /\ call' = [op |-> "TrainingResult", args |-> <<margs, rargs>>]
              /\ raised' = m.raised
              /\ result' = IF m.raised # "none" THEN result
                            ELSE TrainingResult(kwargs, ConstructedAt)
    /\ UNCHANGED <<harnessVars, apiVars, exc, registryVars, loadVars, events, first_run, serialVars, rng,
                   pc, self_config, self_scenario, self_trajectories, self_metrics_history,
                   self_episode_count, episode, step_rewards, train_calls>>

\* data = result.to_dict()
ToDict ==
    /\ result # NoResult
    /\ data = NoData
    /\ data' = TrainingResult_to_dict(result)
    /\ call' = [op |-> "to_dict", args |-> <<>>]
    /\ raised' = "none"
    /\ UNCHANGED <<harnessVars, apiVars, exc, registryVars, trainerVars, loadVars, events, first_run,
                   config_obj, restored>>

\* restored = TrainingResult.from_dict(data)
FromDict ==
    /\ data # NoData
    /\ restored = NoResult
    /\ LET back == TrainingResult_from_dict(data, RestoredAt)
       IN  /\ raised' = back.raised
           /\ restored' = IF back.raised # "none" THEN restored ELSE back.value
    /\ call' = [op |-> "from_dict", args |-> <<>>]
    /\ UNCHANGED <<harnessVars, apiVars, exc, registryVars, trainerVars, loadVars, events, first_run,
                   config_obj, data>>

\* a process that has constructed nothing yet
InitSerial ==
    /\ scn = "customer_support"
    /\ trajs = <<>>
    /\ edits = 0
    /\ phase = "build"
    /\ rewards = <<>>
    /\ metrics = EmptyDict
    /\ raised = "none"
    /\ NoRun

NextSerial ==
    \/ NewConfig
    \/ NewResult
    \/ ToDict
    \/ FromDict

SpecSerial == InitSerial /\ [][NextSerial]_vars

\* ------------------------------------------------------------------------
\* The demo API (api/main.py): the training endpoints and the
\* simulate_training background tasks, which run on one asyncio event loop.
\* A handler or a task runs without interruption from one await to the
\* next.  Session ids are the position of the session in training_sessions;
\* the accuracy, reward, loss and time fields of a session are not modelled.
\* ------------------------------------------------------------------------
SessionIds == 1..MaxSessions

\* asyncio.create_task(simulate_training(session_id)): a task yet to run
NewTask(session_id) == [session_id |-> session_id, pc |-> "loop"]

\* session["current_episode"] > session["max_episodes"]
ReachedMax_mut(session) == session.current_episode > session.max_episodes

\* session["current_episode"] >= session["max_episodes"]
ReachedMax(session) == session.current_episode >= session.max_episodes

\* the part of the state that the API does not touch
ApiRest == <<harnessVars, exc, registryVars, trainerVars, loadVars, events, first_run,
             serialVars>>

\* POST /api/training/start
StartTraining ==
    /\ Cardinality(DOMAIN training_sessions) < MaxSessions
    /\ Len(tasks) < MaxTasks
    /\ \E max_episodes \in 1..MaxSessionEpisodes :
          LET session_id == Cardinality(DOMAIN training_sessions) + 1
          IN  /\ training_sessions' =
                    DictSet(training_sessions, session_id,
                            [status |-> "running", current_episode |-> 0,
                             max_episodes |-> max_episodes])
              /\ tasks' = Append(tasks, NewTask(session_id))
              /\ call' = [op |-> "start_training", args |-> <<max_episodes>>]
    /\ raised' = "none"
    /\ UNCHANGED <<ApiRest, models>>

\* POST /api/training/{session_id}/pause
PauseTraining ==
    /\ \E session_id \in SessionIds :
          /\ call' = [op |-> "pause_training", args |-> <<session_id>>]
          /\ IF session_id \notin DOMAIN training_sessions
             THEN /\ raised' = "HTTPException"
                  /\ UNCHANGED training_sessions
             ELSE /\ raised' = "none"
                  /\ training_sessions' =
                        [training_sessions EXCEPT ![session_id].status = "paused"]
    /\ UNCHANGED <<ApiRest, models, tasks>>

\* POST /api/training/{session_id}/resume
ResumeTraining ==
    /\ \E session_id \in SessionIds :
          /\ call' = [op |-> "resume_training", args |-> <<session_id>>]
          /\ IF session_id \notin DOMAIN training_sessions
             THEN /\ raised' = "HTTPException"
                  /\ UNCHANGED <<training_sessions, tasks>>
             ELSE /\ Len(tasks) < MaxTasks
                  /\ raised' = "none"
                  /\ training_sessions' =
                        [training_sessions EXCEPT ![session_id].status = "running"]
                  /\ tasks' = Append(tasks, NewTask(session_id))
    /\ UNCHANGED <<ApiRest, models>>

\* POST /api/training/{session_id}/stop
StopTraining ==
    /\ \E session_id \in SessionIds :
          /\ call' = [op |-> "stop_training", args |-> <<session_id>>]
          /\ IF session_id \notin DOMAIN training_sessions
             THEN /\ raised' = "HTTPException"
                  /\ UNCHANGED <<training_sessions, models>>
             ELSE /\ Len(models) < MaxModels
                  /\ raised' = "none"
                  /\ training_sessions' =
                        [training_sessions EXCEPT ![session_id].status = "completed"]
                  /\ models' =
                        Append(models,
                               [episodes |-> training_sessions[session_id].current_episode])
    /\ UNCHANGED <<ApiRest, tasks>>

\* simulate_training from the head of its while loop to the next
\* asyncio.sleep; manager.broadcast changes nothing that is modelled
TaskLoop(i) ==
    /\ i <= Len(tasks)
    /\ tasks[i].pc = "loop"
    /\ LET session_id == tasks[i].session_id
           session == training_sessions[session_id]
       IN  IF session_id \notin DOMAIN training_sessions
           THEN /\ tasks' = [tasks EXCEPT ![i].pc = "done"]
                /\ UNCHANGED training_sessions
           ELSE IF session.status # "running"
           THEN /\ tasks' = [tasks EXCEPT ![i].pc = "sleep_1"]
                /\ UNCHANGED training_sessions
           ELSE IF ReachedMax(session)
           THEN /\ training_sessions' =
                      [training_sessions EXCEPT ![session_id].status = "completed"]
                /\ tasks' = [tasks EXCEPT ![i].pc = "done"]
           ELSE /\ training_sessions' =
                      [training_sessions EXCEPT ![session_id].current_episode = @ + 1]
                /\ tasks' = [tasks EXCEPT ![i].pc = "sleep_2"]
    /\ UNCHANGED <<ApiRest, raised, call, models>>

\* asyncio.sleep(1) or asyncio.sleep(2) returns
TaskWake(i) ==
    /\ i <= Len(tasks)
    /\ tasks[i].pc \in {"sleep_1", "sleep_2"}
    /\ tasks' = [tasks EXCEPT ![i].pc = "loop"]
    /\ UNCHANGED <<ApiRest, raised, call, training_sessions, models>>

\* the server after start-up: no session, no model, no task
InitApi ==
    /\ scn = "customer_support"
    /\ trajs = <<>>
    /\ edits = 0
    /\ phase = "build"
    /\ rewards = <<>>
    /\ metrics = EmptyDict
    /\ raised = "none"
    /\ NoRun

NextApi ==
    \/ StartTraining
    \/ PauseTraining
    \/ ResumeTraining
    \/ StopTraining
    \/ \E i \in 1..MaxTasks : TaskLoop(i)
    \/ \E i \in 1..MaxTasks : TaskWake(i)

SpecApi == InitApi /\ [][NextApi]_vars

\* the event loop runs every task that is ready, and every sleep returns
SpecApiFair ==
    /\ InitApi
    /\ [][NextApi]_vars
    /\ \A i \in 1..MaxTasks : WF_vars(TaskLoop(i)) /\ WF_vars(TaskWake(i))

\* ------------------------------------------------------------------------
\* Runs long enough for the tracking interval max(1, episodes // 10) to
\* exceed 1 and for the trajectory list to outgrow the 100-episode window,
\* under one configured seed and an explicitly passed scenario.
\* ------------------------------------------------------------------------
ScheduleEpisodes == (1..MaxScheduleEpisodes) \cup {LongRun}

ScheduleSeeds == {1}

ScheduleConfigs ==
    [scenario : {"customer_support"}, episodes : ScheduleEpisodes,
     seed : {Some(x) : x \in ScheduleSeeds}]

\* Trainer(config, scenario=scenario)
NewScheduleTrainer ==
    NewTrainerWith(ScheduleConfigs, {Some(c) : c \in ScenarioClasses})

InitSchedule ==
    /\ scn = "customer_support"
    /\ trajs = <<>>
    /\ edits = 0
    /\ phase = "build"
    /\ rewards = <<>>
    /\ metrics = EmptyDict
    /\ raised = "none"
    /\ exc = NoException
    /\ call = [op |-> "none", args |-> <<>>]
    /\ BUILT_IN = EmptyDict
    /\ built_ins_loaded = FALSE
    /\ rng \in [ScheduleSeeds -> Draws]
    /\ pc = "no_trainer"
    /\ self_config = NoConfig
    /\ self_scenario = ""
    /\ self_trajectories = <<>>
    /\ self_metrics_history = <<>>
    /\ self_episode_count = 0
    /\ episode = 0
    /\ step_rewards = <<>>
    /\ result = NoResult
    /\ train_calls = 0
    /\ NoLog

NextSchedule ==
    \/ NewScheduleTrainer
    \/ TrainBegin
    \/ Collect
    \/ Broadcast
    \/ UpdatePolicy
    \/ Track
    \/ CreateResult

SpecSchedule == InitSchedule /\ [][NextSchedule]_vars

\* ------------------------------------------------------------------------
\* The registry on its own: register, unregister, clear, list and load
\* called in any order by a process that has not built a Trainer.
\* ------------------------------------------------------------------------
InitRegistry ==
    /\ scn = "customer_support"
    /\ trajs = <<>>
    /\ edits = 0
    /\ phase = "build"
    /\ rewards = <<>>
    /\ metrics = EmptyDict
    /\ raised = "none"
    /\ NoRun

NextRegistry ==
    \/ Register
    \/ Unregister
    \/ Clear
    \/ List
    \/ Load

SpecRegistry == InitRegistry /\ [][NextRegistry]_vars

\* ------------------------------------------------------------------------
\* The caller builds trajectories (Trajectory.__init__ and plain dict
\* assignments), then calls one scenario method on them.
\* ------------------------------------------------------------------------
BoolKeys(scenario) ==
    CASE scenario = "customer_support" -> {"tool_success"}
      [] scenario = "code_review" ->
            {"issue_found", "false_positive", "appropriate_action",
             "constructive_feedback", "thorough_review"}
      [] scenario = "data_analysis" ->
            {"insight_accurate", "insight_inaccurate", "visualization_clear",
             "thorough_analysis", "statistically_valid", "actionable_insight"}

\* keys that are also written with an explicit False
BoolValues(k) ==
    IF k \in {"tool_success", "visualization_clear"}
    THEN BOOLEAN ELSE {TRUE}

NumKeys(scenario) ==
    CASE scenario = "customer_support" -> {"tokens_used", "response_time"}
      [] scenario = "code_review" -> {"review_time", "total_issues"}
      [] scenario = "data_analysis" -> {"analysis_time"}

NumValues(k) ==
    CASE k = "tokens_used" -> {100, 300, 500, 600}
      [] k = "response_time" -> {60, 120, 240, 300}
      [] k = "review_time" -> {600, 1200, 1800, 2400}
      [] k = "analysis_time" -> {900, 1800, 3600, 4000}
      [] k = "total_issues" -> {0, 1, 2}

StrKeys(scenario) ==
    CASE scenario = "customer_support" -> {"action"}
      [] scenario = "code_review" -> {"action", "severity"}
      [] scenario = "data_analysis" -> {"action", "data_quality"}

StrValues(k) ==
    CASE k = "action" -> {"start_review"}
      [] k = "severity" -> {"critical", "high", "medium", "low", "info"}
      [] k = "data_quality" -> {"high", "medium", "low"}

MetaNumValues(k) ==
    CASE k = "tokens_used" -> {300, 600}
      [] k = "response_time" -> {60, 300}

LastTraj == trajs[Len(trajs)]

\* replace the last trajectory of the list
WithLast(t) == [trajs EXCEPT ![Len(trajs)] = t]

\* replace the last step of the last trajectory
WithLastStep(step) ==
    WithLast([LastTraj EXCEPT !.steps[Len(LastTraj.steps)] = step])

LastStep == LastTraj.steps[Len(LastTraj.steps)]

\* the single trajectory handed to broadcast_rewards
BuildTrajectory ==
    /\ phase = "build"
    /\ trajs = <<>>
    /\ \E s \in BOOLEAN :
          trajs' = <<Trajectory(<<>>, 0, s, EmptyDict)>>
    /\ UNCHANGED <<scn, edits, phase, rewards, metrics, raised, runVars>>

\* trajectory.steps.append({})
AddStep ==
    /\ phase = "build"
    /\ Len(trajs) > 0
    /\ Len(LastTraj.steps) < MaxSteps
    /\ trajs' = WithLast([LastTraj EXCEPT !.steps = Append(@, EmptyDict)])
    /\ UNCHANGED <<scn, edits, phase, rewards, metrics, raised, runVars>>

\* trajectory.steps.append(dict(trajectory.steps[-1]))
CopyStep ==
    /\ phase = "build"
    /\ Len(trajs) > 0
    /\ Len(LastTraj.steps) > 0
    /\ Len(LastTraj.steps) < MaxSteps
    /\ trajs' = WithLast([LastTraj EXCEPT !.steps = Append(@, LastStep)])
    /\ UNCHANGED <<scn, edits, phase, rewards, metrics, raised, runVars>>

CanEditStep ==
    /\ phase = "build"
    /\ edits < MaxEdits
    /\ Len(trajs) > 0
    /\ Len(LastTraj.steps) > 0

\* step[k] = v for a boolean flag
SetBoolKey ==
    /\ CanEditStep
    /\ \E k \in BoolKeys(scn) : \E v \in BoolValues(k) :
          trajs' = WithLastStep(DictSet(LastStep, k, v))
    /\ edits' = edits + 1
    /\ UNCHANGED <<scn, phase, rewards, metrics, raised, runVars>>

\* step[k] = v for a measurement
SetNumKey ==
    /\ CanEditStep
    /\ \E k \in NumKeys(scn) : \E v \in NumValues(k) :
          trajs' = WithLastStep(DictSet(LastStep, k, v))
    /\ edits' = edits + 1
    /\ UNCHANGED <<scn, phase, rewards, metrics, raised, runVars>>

\* step[k] = v for a string field
SetStrKey ==
    /\ CanEditStep
    /\ \E k \in StrKeys(scn) : \E v \in StrValues(k) :
          trajs' = WithLastStep(DictSet(LastStep, k, v))
    /\ edits' = edits + 1
    /\ UNCHANGED <<scn, phase, rewards, metrics, raised, runVars>>

\* step_rewards = scenario.broadcast_rewards(trajectory)
CallBroadcastRewards ==
    /\ phase = "build"
    /\ Len(trajs) > 0
    /\ rewards' = broadcast_rewards(scn, LastTraj)
    /\ phase' = "broadcast"
    /\ UNCHANGED <<scn, trajs, edits, metrics, raised, runVars>>

InitBroadcast ==
    /\ scn \in Scenarios
    /\ trajs = <<>>
    /\ edits = 0
    /\ phase = "build"
    /\ rewards = <<>>
    /\ metrics = EmptyDict
    /\ raised = "none"
    /\ NoRun

NextBroadcast ==
    \/ BuildTrajectory
    \/ AddStep
    \/ CopyStep
    \/ SetBoolKey
    \/ SetNumKey
    \/ SetStrKey
    \/ CallBroadcastRewards

SpecBroadcast == InitBroadcast /\ [][NextBroadcast]_vars

\* ------------------------------------------------------------------------
\* The caller builds a list of trajectories and calls calculate_metrics.
\* Only the keys that calculate_metrics reads are written.
\* ------------------------------------------------------------------------
MetricScenarios == Scenarios \cup {"base"}

MetricBoolKeys(scenario) ==
    CASE scenario = "code_review" -> {"issue_found", "false_positive"}
      [] scenario = "data_analysis" ->
            {"insight_accurate", "insight_inaccurate", "visualization_clear",
             "actionable_insight"}
      [] OTHER -> {}

MetricNumKeys(scenario) ==
    CASE scenario = "code_review" -> {"review_time", "total_issues"}
      [] OTHER -> {}

MetricNumValues(k) ==
    CASE k = "review_time" -> {600, 1200}
      [] k = "total_issues" -> {1, 2}

MetricStrKeys(scenario) ==
    CASE scenario = "data_analysis" -> {"data_quality"}
      [] OTHER -> {}

MetaNumKeys == {"tokens_used", "response_time"}

\* trajectories.append(Trajectory(success=s))
NewTrajectory ==
    /\ phase = "build"
    /\ Len(trajs) < MaxTrajs
    /\ \E s \in BOOLEAN :
          trajs' = Append(trajs, Trajectory(<<>>, 0, s, EmptyDict))
    /\ UNCHANGED <<scn, edits, phase, rewards, metrics, raised, runVars>>

\* step[k] = v for a key that calculate_metrics reads
SetMetricKey ==
    /\ phase = "build"
    /\ edits < MaxMetricEdits
    /\ Len(trajs) > 0
    /\ Len(LastTraj.steps) > 0
    /\ \/ \E k \in MetricBoolKeys(scn) : \E v \in BoolValues(k) :
             trajs' = WithLastStep(DictSet(LastStep, k, v))
       \/ \E k \in MetricNumKeys(scn) : \E v \in MetricNumValues(k) :
             trajs' = WithLastStep(DictSet(LastStep, k, v))
       \/ \E k \in MetricStrKeys(scn) : \E v \in StrValues(k) :
             trajs' = WithLastStep(DictSet(LastStep, k, v))
    /\ edits' = edits + 1
    /\ UNCHANGED <<scn, phase, rewards, metrics, raised, runVars>>

\* trajectory.metadata[k] = v
SetMeta ==
    /\ phase = "build"
    /\ edits < MaxMetricEdits
    /\ Len(trajs) > 0
    /\ \/ \E k \in MetaNumKeys : \E v \in MetaNumValues(k) :
             trajs' = WithLast([LastTraj EXCEPT !.metadata = DictSet(@, k, v)])
       \/ \E v \in BOOLEAN :
             trajs' = WithLast([LastTraj EXCEPT
                                   !.metadata = DictSet(@, "found_all_issues", v)])
    /\ edits' = edits + 1
    /\ UNCHANGED <<scn, phase, rewards, metrics, raised, runVars>>

\* trajectory.total_reward = r
SetTotalReward ==
    /\ phase = "build"
    /\ edits < MaxMetricEdits
    /\ Len(trajs) > 0
    /\ \E r \in {10} :
          trajs' = WithLast([LastTraj EXCEPT !.total_reward = r])
    /\ edits' = edits + 1
    /\ UNCHANGED <<scn, phase, rewards, metrics, raised, runVars>>

\* metrics = scenario.calculate_metrics(trajectories)
CallCalculateMetrics ==
    /\ phase = "build"
    /\ LET m == calculate_metrics(scn, trajs)
       IN IF DividesByZero(m)
          THEN /\ raised' = "ZeroDivisionError"
               /\ UNCHANGED metrics
          ELSE /\ metrics' = m
               /\ UNCHANGED raised
    /\ phase' = "metrics"
    /\ UNCHANGED <<scn, trajs, edits, rewards, runVars>>

InitMetrics ==
    /\ scn \in MetricScenarios
    /\ trajs = <<>>
    /\ edits = 0
    /\ phase = "build"
    /\ rewards = <<>>
    /\ metrics = EmptyDict
    /\ raised = "none"
    /\ NoRun

NextMetrics ==
    \/ NewTrajectory
    \/ AddStep
    \/ CopyStep
    \/ SetMetricKey
    \/ SetMeta
    \/ SetTotalReward
    \/ CallCalculateMetrics

SpecMetrics == InitMetrics /\ [][NextMetrics]_vars

\* ------------------------------------------------------------------------
\* Properties of broadcast_rewards (checked under SpecBroadcast)
\* ------------------------------------------------------------------------
Broadcasted == phase = "broadcast"

\* the steps of the trajectory that was handed to broadcast_rewards
BSteps == LastTraj.steps

SuccessBase(scenario) ==
    CASE scenario = "customer_support" -> CS_SUCCESS_BASE
      [] scenario = "code_review" -> CR_SUCCESS_BASE
      [] scenario = "data_analysis" -> DA_SUCCESS_BASE

FailureBase(scenario) ==
    CASE scenario = "customer_support" -> CS_FAILURE_BASE
      [] scenario = "code_review" -> CR_FAILURE_BASE
      [] scenario = "data_analysis" -> DA_FAILURE_BASE

OutcomeBase(scenario, trajectory) ==
    IF trajectory.success THEN SuccessBase(scenario) ELSE FailureBase(scenario)

\* two step dictionaries that agree on every key other than k
SameExcept(s1, s2, k) ==
    /\ (DOMAIN s1) \ {k} = (DOMAIN s2) \ {k}
    /\ \A x \in (DOMAIN s1) \ {k} : s1[x] = s2[x]

\* C1: broadcast_rewards returns one reward per step: the returned list is
\* indexed exactly like trajectory.steps, and is empty for an empty trajectory.
C1_OneRewardPerStep ==
    Broadcasted =>
        /\ DOMAIN rewards = 1..Len(BSteps)
        /\ Len(rewards) = Len(BSteps)
        /\ (BSteps = <<>> => rewards = <<>>)

C1_Witness ==
    /\ Broadcasted
    /\ Len(BSteps) = 2
    /\ Len(rewards) = 2

\* C2 (as claimed): with success=True every per-step reward is at least the
\* scenario's success base reward.
C2_AtLeastSuccessBase ==
    (Broadcasted /\ LastTraj.success) =>
        \A i \in 1..Len(BSteps) : rewards[i] >= SuccessBase(scn) * Unit

\* the most negative sum of step terms the scenario's table allows
MinStepTerms(scenario) ==
    CASE scenario = "customer_support" -> CS_TOOL_FAILURE
      [] scenario = "code_review" -> CR_FALSE_POSITIVE
      [] scenario = "data_analysis" -> DA_QUALITY_LOW + DA_INSIGHT_INACCURATE

\* C2 (amended): with success=True every per-step reward is at least the
\* success base plus the scenario's penalty terms (CustomerSupport -10.0,
\* CodeReview 0.0, DataAnalysis -8.0).
C2_AtLeastBasePlusPenalties ==
    (Broadcasted /\ LastTraj.success) =>
        \A i \in 1..Len(BSteps) :
            rewards[i] >= (SuccessBase(scn) + MinStepTerms(scn)) * Unit

C2_Witness ==
    /\ Broadcasted
    /\ LastTraj.success
    /\ \E i \in 1..Len(BSteps) :
          /\ rewards[i] = (SuccessBase(scn) + MinStepTerms(scn)) * Unit
          /\ rewards[i] < SuccessBase(scn) * Unit

\* keys that a scenario's broadcast_rewards reads from a step
RewardKeys(scenario) ==
    CASE scenario = "customer_support" ->
            {"tool_success", "tokens_used", "response_time"}
      [] scenario = "code_review" ->
            {"issue_found", "severity", "false_positive", "appropriate_action",
             "review_time", "constructive_feedback", "thorough_review"}
      [] scenario = "data_analysis" ->
            {"data_quality", "insight_accurate", "insight_inaccurate",
             "visualization_clear", "thorough_analysis", "analysis_time",
             "statistically_valid", "actionable_insight"}

BareStep(scenario, step) == (DOMAIN step) \cap RewardKeys(scenario) = {}

\* C3 (as claimed): in every scenario a step carrying none of the recognised
\* keys receives exactly the outcome base reward.
C3_BareStepGetsBase ==
    Broadcasted =>
        \A i \in 1..Len(BSteps) :
            BareStep(scn, BSteps[i]) =>
                rewards[i] = OutcomeBase(scn, LastTraj) * Unit

\* C3 (amended): a step carrying none of the recognised keys receives exactly
\* the outcome base in CodeReview and DataAnalysis, and the outcome base minus
\* 20.0 in CustomerSupport, where an absent tool_success counts as a failed
\* tool use.
C3_BareStepReward ==
    Broadcasted =>
        \A i \in 1..Len(BSteps) :
            BareStep(scn, BSteps[i]) =>
                rewards[i] =
                    IF scn = "customer_support"
                    THEN (OutcomeBase(scn, LastTraj) + CS_TOOL_FAILURE) * Unit
                    ELSE OutcomeBase(scn, LastTraj) * Unit

C3_Witness ==
    /\ Broadcasted
    /\ scn = "code_review"
    /\ \E i \in 1..Len(BSteps) :
          /\ DOMAIN BSteps[i] = {"action"}
          /\ rewards[i] = OutcomeBase(scn, LastTraj) * Unit

\* table value of a boolean-triggered term, in reward points
FlagValue(scenario, flag, step) ==
    CASE flag = "tool_success" -> CS_TOOL_SUCCESS
      [] flag = "issue_found" -> severity_rewards(Get(step, "severity", "low"))
      [] flag = "false_positive" -> CR_FALSE_POSITIVE
      [] flag = "appropriate_action" -> CR_APPROPRIATE_ACTION
      [] flag = "constructive_feedback" -> CR_CONSTRUCTIVE_FEEDBACK
      [] flag = "thorough_review" -> CR_THOROUGH_REVIEW
      [] flag = "insight_accurate" -> DA_INSIGHT_ACCURATE
      [] flag = "insight_inaccurate" -> DA_INSIGHT_INACCURATE
      [] flag = "visualization_clear" -> DA_VISUALIZATION_CLEAR
      [] flag = "thorough_analysis" -> DA_THOROUGH_ANALYSIS
      [] flag = "statistically_valid" -> DA_STATISTICALLY_VALID
      [] flag = "actionable_insight" -> DA_ACTIONABLE_INSIGHT

FlagsSet(scenario, step) == {f \in BoolKeys(scenario) : Get(step, f, FALSE)}

RECURSIVE SumFlags(_, _, _)
SumFlags(scenario, flags, step) ==
    IF flags = {} THEN 0
    ELSE LET f == CHOOSE x \in flags : TRUE
         IN FlagValue(scenario, f, step) + SumFlags(scenario, flags \ {f}, step)

\* the terms of a step that are not triggered by a boolean flag, in 1/Unit
MeasuredTerms(scenario, step) ==
    CASE scenario = "customer_support" ->
            LinearBonus(CS_TOKEN_BONUS,
                Get(step, "tokens_used", CS_BASELINE_TOKENS), CS_BASELINE_TOKENS)
            + LinearBonus(CS_SPEED_BONUS,
                Get(step, "response_time", CS_BASELINE_TIME), CS_BASELINE_TIME)
      [] scenario = "code_review" ->
            LinearBonus(CR_SPEED_BONUS,
                Get(step, "review_time", CR_BASELINE_TIME), CR_BASELINE_TIME)
      [] scenario = "data_analysis" ->
            LinearBonus(DA_SPEED_BONUS,
                Get(step, "analysis_time", DA_BASELINE_TIME), DA_BASELINE_TIME)
            + (IF Get(step, "data_quality", "None") = "high" THEN DA_QUALITY_HIGH * Unit
               ELSE IF Get(step, "data_quality", "None") = "low"
                    THEN DA_QUALITY_LOW * Unit ELSE 0)

\* C4 (as claimed): a step's reward is the outcome base plus the table value
\* of every boolean term whose flag is set in the step (plus the measured
\* terms); no flag suppresses or alters another flag's contribution.
C4_FlagsAdditive ==
    Broadcasted =>
        \A i \in 1..Len(BSteps) :
            rewards[i] =
                OutcomeBase(scn, LastTraj) * Unit
                + SumFlags(scn, FlagsSet(scn, BSteps[i]), BSteps[i]) * Unit
                + MeasuredTerms(scn, BSteps[i])

\* flags whose term applies in the code: insight_inaccurate only counts when
\* insight_accurate is not set
FlagsApplied(scenario, step) ==
    FlagsSet(scenario, step) \
        (IF Get(step, "insight_accurate", FALSE) THEN {"insight_inaccurate"} ELSE {})

\* the term CustomerSupport applies when tool_success is not set
UnsetFlagTerm(scenario, step) ==
    IF scenario = "customer_support" /\ ~Get(step, "tool_success", FALSE)
    THEN CS_TOOL_FAILURE ELSE 0

\* C4 (amended): a step's reward is the outcome base plus the table value of
\* every boolean term whose flag is set, the terms adding up independently,
\* except that DataAnalysis applies insight_inaccurate only when
\* insight_accurate is not set and CustomerSupport applies -20.0 when
\* tool_success is not set.
C4_FlagsAdditiveExceptInsightPair ==
    Broadcasted =>
        \A i \in 1..Len(BSteps) :
            rewards[i] =
                OutcomeBase(scn, LastTraj) * Unit
                + SumFlags(scn, FlagsApplied(scn, BSteps[i]), BSteps[i]) * Unit
                + UnsetFlagTerm(scn, BSteps[i]) * Unit
                + MeasuredTerms(scn, BSteps[i])

C4_Witness ==
    /\ Broadcasted
    /\ scn = "data_analysis"
    /\ \E i \in 1..Len(BSteps) :
          /\ FlagsSet(scn, BSteps[i]) =
                {"insight_accurate", "visualization_clear", "thorough_analysis"}
          /\ rewards[i] = (OutcomeBase(scn, LastTraj) + DA_INSIGHT_ACCURATE
                           + DA_VISUALIZATION_CLEAR + DA_THOROUGH_ANALYSIS) * Unit

\* the key and baseline of each linear speed/efficiency bonus
LinearKeys(scenario) ==
    CASE scenario = "customer_support" -> {"tokens_used", "response_time"}
      [] scenario = "code_review" -> {"review_time"}
      [] scenario = "data_analysis" -> {"analysis_time"}

Baseline(k) ==
    CASE k = "tokens_used" -> CS_BASELINE_TOKENS
      [] k = "response_time" -> CS_BASELINE_TIME
      [] k = "review_time" -> CR_BASELINE_TIME
      [] k = "analysis_time" -> DA_BASELINE_TIME

SeverityRank(severity) ==
    CASE severity = "critical" -> 4
      [] severity = "high" -> 3
      [] severity = "medium" -> 2
      [] severity = "low" -> 1
      [] OTHER -> 0

\* two CodeReview steps that differ only in severity, the first more severe
MoreSevere(s1, s2) ==
    /\ SameExcept(s1, s2, "severity")
    /\ "severity" \in DOMAIN s1
    /\ "severity" \in DOMAIN s2
    /\ SeverityRank(s2["severity"]) >= 1
    /\ SeverityRank(s1["severity"]) > SeverityRank(s2["severity"])

\* C6 (as claimed): CodeReview steps that differ only in severity are rewarded
\* in the strict order critical > high > medium > low.
C6_SeverityOrdered ==
    (Broadcasted /\ scn = "code_review") =>
        \A i, j \in 1..Len(BSteps) :
            MoreSevere(BSteps[i], BSteps[j]) => rewards[i] > rewards[j]

\* C6 (amended): CodeReview steps with issue_found set that differ only in
\* severity are rewarded in the strict order critical > high > medium > low.
C6_SeverityOrderedWhenIssueFound ==
    (Broadcasted /\ scn = "code_review") =>
        \A i, j \in 1..Len(BSteps) :
            (MoreSevere(BSteps[i], BSteps[j]) /\ Get(BSteps[i], "issue_found", FALSE))
                => rewards[i] > rewards[j]

C6_Witness ==
    /\ Broadcasted
    /\ scn = "code_review"
    /\ \E i, j \in 1..Len(BSteps) :
          /\ MoreSevere(BSteps[i], BSteps[j])
          /\ Get(BSteps[i], "issue_found", FALSE)
          /\ BSteps[i]["severity"] = "critical"
          /\ BSteps[j]["severity"] = "high"
          /\ rewards[i] = rewards[j] + 10 * Unit

\* ------------------------------------------------------------------------
\* Properties of calculate_metrics (checked under SpecMetrics)
\* ------------------------------------------------------------------------
MetricsCalled == phase = "metrics"

\* no step of any trajectory in the list satisfies P
NoStep(P(_)) ==
    \A i \in 1..Len(trajs) : \A j \in 1..Len(trajs[i].steps) : ~P(trajs[i].steps[j])

HasTotalIssues(step) == "total_issues" \in DOMAIN step /\ step["total_issues"] # 0

IsZero(m, k) == k \in DOMAIN m /\ m[k].n = 0 /\ m[k].d # 0

\* C7: no calculate_metrics call raises a division error; a ratio or average
\* whose denominator is zero is reported as 0.0; for the empty list every
\* numeric metric is 0.0 and convergence_episode is None.
C7_NoDivisionError ==
    MetricsCalled =>
        /\ raised = "none"
        /\ trajs = <<>> =>
              /\ \A k \in (DOMAIN metrics) \ {"convergence_episode"} : IsZero(metrics, k)
              /\ metrics["convergence_episode"] = None
        /\ (trajs # <<>> /\ scn = "code_review") =>
              /\ NoStep(HasTotalIssues) => IsZero(metrics, "review_accuracy")
              /\ NoStep(IssueFound) => IsZero(metrics, "false_positive_rate")
              /\ NoStep(HasReviewTime) => IsZero(metrics, "avg_review_time")
        /\ (trajs # <<>> /\ scn = "data_analysis") =>
              /\ NoStep(IsInsight) =>
                    IsZero(metrics, "analysis_accuracy") /\ IsZero(metrics, "insight_quality")
              /\ NoStep(HasDataQuality) => IsZero(metrics, "data_quality")
              /\ NoStep(HasVisualization) => IsZero(metrics, "visualization_quality")

C7_Witness ==
    /\ MetricsCalled
    /\ raised = "none"
    /\ scn = "code_review"
    /\ trajs # <<>>
    /\ ~NoStep(IssueFound)
    /\ NoStep(HasTotalIssues)
    /\ IsZero(metrics, "review_accuracy")

FoundAllIssues(t) == Get(t.metadata, "found_all_issues", FALSE)

\* C8: for a non-empty list CodeReview's review_completeness is the number of
\* trajectories whose metadata found_all_issues is true, divided by the number
\* of trajectories.
C8_ReviewCompleteness ==
    (MetricsCalled /\ raised = "none" /\ scn = "code_review" /\ trajs # <<>>) =>
        RatEq(metrics["review_completeness"],
              Ratio(CountTrue([i \in 1..Len(trajs) |-> FoundAllIssues(trajs[i])]), Len(trajs)))

\* ------------------------------------------------------------------------
\* Properties of the Trainer (checked under SpecTrainer)
\* ------------------------------------------------------------------------
\* C9: one train() call on a freshly constructed Trainer with episodes = N
\* returns, leaves exactly N trajectories in trainer.trajectories, and the
\* returned result has metrics.episodes_completed = N and
\* artifacts['trajectories_count'] = N.
C9_EpisodesCompleted ==
    (train_calls = 1 /\ pc \in {"done", "failed"}) =>
        /\ pc = "done"
        /\ Len(self_trajectories) = self_config.episodes
        /\ result.metrics.episodes_completed = self_config.episodes
        /\ result.artifacts.trajectories_count = self_config.episodes

C9_Witness ==
    /\ train_calls = 1
    /\ pc = "done"
    /\ self_config.episodes = 3
    /\ Len(self_trajectories) = 3
    /\ result.metrics.episodes_completed = 3
    /\ result.artifacts.trajectories_count = 3

LastLoaded == load_returns[Len(load_returns)]

\* C11: for every name x and class X for which register(x, X) succeeded,
\* every later load(x) with no unregister(x) or clear() in between returns
\* a newly created instance of X, distinct from every instance returned by
\* earlier load calls.
C11_LoadReturnsFreshRegisteredInstance ==
    (call.op = "load" /\ call.args[1] \in DOMAIN registered) =>
        /\ raised = "none"
        /\ load_returns # <<>>
        /\ instances[LastLoaded] = registered[call.args[1]]
        /\ \A i \in 1..(Len(load_returns) - 1) : load_returns[i] # LastLoaded

\* C12: register(name, T) raises when name is already in the registry or T
\* is not a Scenario subclass and then leaves the mapping exactly as it was;
\* when it succeeds it adds exactly name -> T and changes no other entry.
C12_RegisterAtomic ==
    [][call'.op = "register" =>
          LET name == call'.args[1]
              T == call'.args[2]
          IN IF name \in DOMAIN BUILT_IN \/ T \notin ScenarioClasses
             THEN /\ raised' # "none"
                  /\ BUILT_IN' = BUILT_IN
             ELSE /\ raised' = "none"
                  /\ DOMAIN BUILT_IN' = (DOMAIN BUILT_IN) \cup {name}
                  /\ BUILT_IN'[name] = T
                  /\ \A other \in DOMAIN BUILT_IN : BUILT_IN'[other] = BUILT_IN[other]]_vars

C12_Witness ==
    /\ call.op = "register"
    /\ call.args = <<"x", "code_review">>
    /\ raised = "none"
    /\ built_ins_loaded
    /\ DOMAIN BUILT_IN = {"customer_support", "x"}
    /\ BUILT_IN["x"] = "code_review"
    /\ BUILT_IN["customer_support"] = "customer_support"

\* C13: on the registry's first access (load or list) with no register call
\* before it, the registry is populated with all built-in scenarios, so each
\* of customer_support, code_review and data_analysis resolves through load.
C13_FirstAccessLoadsAllBuiltIns ==
    [][(/\ ~built_ins_loaded
        /\ BUILT_IN = EmptyDict
        /\ registered = EmptyDict
        /\ call'.op \in {"load", "list"}) =>
          /\ \A name \in Scenarios : name \in DOMAIN BUILT_IN'
          /\ call'.op = "load" /\ call'.args[1] \in Scenarios => raised' = "none"]_vars

\* ------------------------------------------------------------------------
\* Properties of the episode loop (checked under SpecSchedule)
\* ------------------------------------------------------------------------
\* k = max(1, N div 10)
Interval(N) == IF N \div 10 > 1 THEN N \div 10 ELSE 1

\* the calls one episode makes, in order
EpisodeEvents(ep, N) ==
    <<Event("collect_trajectory_online", ep), Event("trajectories.append", ep),
      Event("broadcast_rewards", ep), Event("update_policy", ep)>>
    \o (IF (ep + 1) % Interval(N) = 0 THEN <<Event("track_metrics", ep + 1)>> ELSE <<>>)

\* the calls of episodes lo..hi, in order
RECURSIVE EpisodesEvents(_, _, _)
EpisodesEvents(lo, hi, N) ==
    IF lo > hi THEN <<>>
    ELSE IF lo = hi THEN EpisodeEvents(lo, N)
    ELSE LET mid == (lo + hi) \div 2
         IN EpisodesEvents(lo, mid, N) \o EpisodesEvents(mid + 1, hi, N)

\* every call of one train() with episodes = N, in order
TrainEvents(N) ==
    <<Event("create_environment", 0)>> \o EpisodesEvents(0, N - 1, N)
    \o <<Event("create_result", N)>>

IsPrefix(s, t) == Len(s) <= Len(t) /\ s = SubSeq(t, 1, Len(s))

TrainRunning == pc \in {"collect", "broadcast", "update", "track", "result"}

\* C17: within one train() with episodes = N, create_environment is called
\* once and first; then for each episode 0..N-1 in order the trajectory is
\* collected, appended, broadcast once, passed to the policy update and, if
\* due, tracked; the final calculate_metrics comes after episode N-1.
C17_TrainCallOrder ==
    /\ TrainRunning =>
          /\ IsPrefix(events, TrainEvents(self_config.episodes))
          /\ Len(events) < Len(TrainEvents(self_config.episodes))
    /\ pc = "done" => events = TrainEvents(self_config.episodes)
    /\ pc = "failed" => FALSE

C17_Witness ==
    /\ pc = "done"
    /\ train_calls = 1
    /\ self_config.episodes = 20
    /\ Len(events) = 92
    /\ events[10] = Event("track_metrics", 2)

\* the first train() call on a Trainer, running or returned
FirstTrain == train_calls = 1 /\ (TrainRunning \/ pc = "done")

\* C18: with k = max(1, N div 10), one train() on a fresh Trainer appends a
\* metrics-history entry exactly after each episode count e in 1..N with
\* e mod k = 0 and at no other time, tagged 'episode' = e: the tags are the
\* multiples of k up to N, in increasing order.
C18_TrackedAtMultiplesOfInterval ==
    FirstTrain =>
        LET k == Interval(self_config.episodes)
        IN /\ Len(self_metrics_history) = self_episode_count \div k
           /\ \A i \in 1..Len(self_metrics_history) :
                 self_metrics_history[i]["episode"] = i * k
           /\ pc = "done" => self_episode_count = self_config.episodes

C18_Witness ==
    /\ pc = "done"
    /\ train_calls = 1
    /\ self_config.episodes = 21
    /\ Len(self_metrics_history) = 10
    /\ self_metrics_history[1]["episode"] = 2
    /\ self_metrics_history[10]["episode"] = 20

\* the last n entries of ts
LastN(ts, n) == SubSeq(ts, Len(ts) - n + 1, Len(ts))

Min(a, b) == IF a <= b THEN a ELSE b

\* the metric fields of a TrainingResult that come from calculate_metrics
ResultMetricKeys ==
    {"tool_reliability", "avg_tokens_used", "avg_response_time", "cost_reduction",
     "total_training_time", "final_reward", "convergence_episode"}

\* C19: the metrics-history entry tagged e is calculate_metrics applied to
\* exactly the last min(100, number of trajectories held) trajectories at
\* that moment, in collection order; the final result's metrics are
\* calculate_metrics over all collected trajectories.
C19_WindowedHistoryAndFullFinal ==
    [][/\ (self_metrics_history' # self_metrics_history /\ self_metrics_history' # <<>>) =>
            LET window == LastN(self_trajectories, Min(100, Len(self_trajectories)))
            IN /\ self_trajectories' = self_trajectories
               /\ self_metrics_history' =
                     Append(self_metrics_history,
                            DictSet(calculate_metrics(self_scenario, window),
                                    "episode", episode + 1))
       /\ (pc = "result" /\ pc' = "done") =>
            LET all == calculate_metrics(self_scenario, self_trajectories)
            IN /\ self_trajectories' = self_trajectories
               /\ \A key \in ResultMetricKeys : result'.metrics[key] = all[key]]_vars

C19_Witness ==
    /\ pc = "done"
    /\ train_calls = 1
    /\ Len(self_trajectories) > 100
    /\ self_metrics_history # <<>>
    /\ self_metrics_history[Len(self_metrics_history)]["episode"] > 100
    /\ self_metrics_history[Len(self_metrics_history)]["tool_reliability"].d = 100
    /\ result.metrics.tool_reliability.d = Len(self_trajectories)

\* C20 as stated: for every N >= 10, one train() on a fresh Trainer leaves
\* between 9 and 11 entries in metrics_history.
C20_AboutTenEntries ==
    (train_calls = 1 /\ pc = "done" /\ self_config.episodes >= 10) =>
        /\ Len(self_metrics_history) >= 9
        /\ Len(self_metrics_history) <= 11

\* C20: for every N >= 10, one train() on a fresh Trainer leaves exactly
\* N div max(1, N div 10) entries in metrics_history, at least 10 and at
\* most 19.
C20_TenToNineteenEntries ==
    (train_calls = 1 /\ pc = "done" /\ self_config.episodes >= 10) =>
        /\ Len(self_metrics_history) =
              self_config.episodes \div Interval(self_config.episodes)
        /\ Len(self_metrics_history) >= 10
        /\ Len(self_metrics_history) <= 19

C20_Witness ==
    /\ train_calls = 1
    /\ pc = "done"
    /\ self_config.episodes = 19
    /\ Len(self_metrics_history) = 19

C15_RoundTrip ==
    call.op = "from_dict" =>
        /\ raised = "none"
        /\ restored.config = result.config
        /\ restored.metrics = result.metrics
        /\ restored.trained_model_path = result.trained_model_path
        /\ restored.artifacts = result.artifacts
        /\ restored.timestamp = result.timestamp
        /\ restored.version = result.version

C15_Witness ==
    /\ call.op = "from_dict"
    /\ restored # NoResult
    /\ restored.version = "0.2.0"
    /\ restored.timestamp = "2025-01-01T00:00:00"
    /\ restored.artifacts # EmptyDict
    /\ restored.config["scenario"] = "code-review_2"
    /\ restored.metrics["convergence_episode"] = Some(8500)

\* the hyperparameters the claim calls out of range
OutOfRangeAsClaimed(kwargs) ==
    \/ kwargs.episodes <= 0
    \/ kwargs.batch_size <= 0
    \/ ~(RatLess(Zero, kwargs.learning_rate) /\ ~RatLess(Ratio(1, 1), kwargs.learning_rate))
    \/ ~(RatLess(Zero, kwargs.discount_factor) /\ RatLess(kwargs.discount_factor, Ratio(1, 1)))

\* the hyperparameters the constructor refuses
OutOfRangeAsRefused(kwargs) ==
    \/ kwargs.episodes <= 0
    \/ kwargs.batch_size <= 0
    \/ ~RatLess(Zero, kwargs.learning_rate)
    \/ ~(RatLess(Zero, kwargs.discount_factor) /\ RatLess(kwargs.discount_factor, Ratio(1, 1)))

\* C16 as stated: TrainingConfig(...) with episodes <= 0, batch_size <= 0,
\* learning_rate outside (0, 1] or discount_factor outside (0, 1) raises a
\* validation error and produces no config object.
C16_RejectsOutOfRange ==
    [][(call'.op = "TrainingConfig" /\ OutOfRangeAsClaimed(call'.args)) =>
          /\ raised' = "ValidationError"
          /\ config_obj' = config_obj]_vars

\* C16 as the code has it: TrainingConfig(...) with episodes <= 0,
\* batch_size <= 0, learning_rate <= 0 or discount_factor outside (0, 1)
\* raises a validation error and produces no config object; a learning_rate
\* above 1 with the other fields valid is accepted and stored as given.
C16_RejectsNonPositiveAndDiscount ==
    [][call'.op = "TrainingConfig" =>
          /\ OutOfRangeAsRefused(call'.args) =>
                /\ raised' = "ValidationError"
                /\ config_obj' = config_obj
          /\ (~OutOfRangeAsRefused(call'.args) /\ IsAlnumName(call'.args.scenario)) =>
                /\ raised' = "none"
                /\ config_obj'["episodes"] = call'.args.episodes
                /\ config_obj'["batch_size"] = call'.args.batch_size
                /\ config_obj'["learning_rate"] = call'.args.learning_rate
                /\ config_obj'["discount_factor"] = call'.args.discount_factor]_vars

C16_Witness ==
    /\ call.op = "TrainingConfig"
    /\ raised = "ValidationError"
    /\ call.args.scenario = "Test"
    /\ call.args.episodes = 0
    /\ call.args.batch_size = 32
    /\ call.args.learning_rate = Ratio(3, 10000)
    /\ call.args.discount_factor = Ratio(99, 100)
    /\ config_obj # NoConfigObj
    /\ config_obj["learning_rate"] = Ratio(3, 2)

C26_BuiltInAlwaysAvailable ==
    /\ built_ins_loaded => "customer_support" \in DOMAIN BUILT_IN
    /\ call.op = "list" => "customer_support" \in DOMAIN BUILT_IN
    /\ (call.op = "load" /\ call.args[1] = "customer_support") => raised = "none"

\* ------------------------------------------------------------------------
\* Repeated train() calls, metric ranges and seeding (checked under SpecTrainer)
\* ------------------------------------------------------------------------
\* C23: after any number of train() calls on one Trainer, the result of the
\* latest call has metrics.episodes_completed equal to
\* artifacts['trajectories_count'] equal to len(trainer.trajectories).
C23_CountsAgreeAfterEveryTrain ==
    pc = "done" =>
        /\ result.metrics.episodes_completed = result.artifacts.trajectories_count
        /\ result.artifacts.trajectories_count = Len(self_trajectories)

\* C24: for each built-in scenario and every valid config, train() returns
\* a TrainingResult: the final metrics of the synthesized trajectories pass
\* the TrainingMetrics range checks, so no train() call ends in an error.
C24_TrainAlwaysReturns ==
    /\ pc # "failed"
    /\ call.op = "train" => raised = "none"
    /\ pc = "done" =>
          /\ MetricsInRange(result.metrics, result.metrics.episodes_completed)
          /\ result.config = self_config

C24_Witness ==
    /\ pc = "done"
    /\ self_scenario = "data_analysis"
    /\ self_config.episodes = 3
    /\ result.metrics.episodes_completed = 3
    /\ result.metrics.tool_reliability.n > 0
    /\ result.metrics.tool_reliability.n < result.metrics.tool_reliability.d
    /\ result.metrics.avg_tokens_used.n > 0

\* C27: whenever config.seed is not None, seed 0 included, the trajectory of
\* every episode is synthesized from the random generator seeded with
\* config.seed, not with the episode index.
C27_ConfiguredSeedUsed ==
    (pc = "broadcast" /\ self_config.seed # None) =>
        LET seed == CHOOSE x \in self_config.seed : TRUE
            collected == self_trajectories[Len(self_trajectories)]
        IN /\ Len(collected.steps) = rng[seed].num_steps
           /\ collected.metadata["tokens_used"] = rng[seed].tokens_used
           /\ collected.metadata["response_time"] = rng[seed].response_time

\* ------------------------------------------------------------------------
\* Ranges of the ratio metrics (checked under SpecMetrics)
\* ------------------------------------------------------------------------
RatioMetricKeys ==
    {"tool_reliability", "cost_reduction", "time_savings", "review_accuracy",
     "false_positive_rate", "review_completeness", "analysis_accuracy", "data_quality",
     "visualization_quality", "insight_quality"}

\* C25: for every list of trajectories, every ratio metric returned by a
\* scenario's calculate_metrics lies in the interval [0, 1].
C25_RatioMetricsInUnitInterval ==
    (MetricsCalled /\ raised = "none") =>
        \A k \in RatioMetricKeys \cap DOMAIN metrics :
            /\ metrics[k].d > 0
            /\ metrics[k].n >= 0
            /\ metrics[k].n <= metrics[k].d

\* ------------------------------------------------------------------------
\* The demo API (checked under SpecApi; termination under SpecApiFair)
\* ------------------------------------------------------------------------
\* the simulate_training tasks of a session that have not returned
ActiveTasks(session_id) ==
    {i \in 1..Len(tasks) : tasks[i].session_id = session_id /\ tasks[i].pc # "done"}

\* C22: at any time at most one simulate_training task is active for a
\* session, whatever start, pause, resume and stop requests were issued.
C22_OneTaskPerSession ==
    \A session_id \in DOMAIN training_sessions :
        Cardinality(ActiveTasks(session_id)) <= 1

\* C28: under every interleaving of requests and of any number of tasks of
\* a session, the session's current_episode never exceeds its max_episodes
\* and never decreases.
C28_EpisodeBoundedAndMonotonic ==
    [][\A session_id \in DOMAIN training_sessions :
          /\ session_id \in DOMAIN training_sessions'
          /\ training_sessions'[session_id].max_episodes
                = training_sessions[session_id].max_episodes
          /\ training_sessions'[session_id].current_episode
                >= training_sessions[session_id].current_episode
          /\ training_sessions'[session_id].current_episode
                <= training_sessions'[session_id].max_episodes]_vars

C28_Witness ==
    /\ 1 \in DOMAIN training_sessions
    /\ training_sessions[1].max_episodes = 2
    /\ training_sessions[1].current_episode = 2
    /\ training_sessions[1].status = "running"
    /\ Cardinality({i \in ActiveTasks(1) : tasks[i].pc = "loop"}) >= 2

\* C29: once a session's status is 'completed', no pause or resume request
\* and no task step changes the status or increases current_episode.
C29_CompletedIsTerminal ==
    [][\A session_id \in DOMAIN training_sessions :
          training_sessions[session_id].status = "completed" =>
             /\ training_sessions'[session_id].status = "completed"
             /\ training_sessions'[session_id].current_episode
                   = training_sessions[session_id].current_episode]_vars

\* C30: under fair scheduling every simulate_training task whose session
\* has been stopped or has reached max_episodes eventually leaves its loop.
C30_TasksTerminate ==
    \A i \in 1..MaxTasks :
        (/\ i <= Len(tasks)
         /\ training_sessions[tasks[i].session_id].status = "completed")
        ~> (i <= Len(tasks) /\ tasks[i].pc = "done")

====
